---- MODULE Spec2Model ----
(***************************************************************************)
(* Gateway clients of the Sonatype MCP adapter: NexusClient and            *)
(* FirewallClient (get / post / put / delete / testConnection), the        *)
(* read-only gate, the credential gate and the error classification of     *)
(* utils/errors.ts (handleNexusError, formatMCPError).                     *)
(*                                                                         *)
(* Around them: the configuration of config/environment.ts (parseArgs,     *)
(* loadEnvironment, createConfig), the tool registration of tools/index.ts *)
(* and the call-tool handler of index.ts with the tool handlers.           *)
(*                                                                         *)
(* One call is two atomic steps, as in the single-threaded runtime: the    *)
(* code up to the await of the HTTP library (Invoke), and the code after   *)
(* it (Respond / TransportFails).  JavaScript strings are TLA+ strings,    *)
(* template literals are \o.                                               *)
(*                                                                         *)
(* The repository holds two versions of NexusClient.  The one modelled is  *)
(* the one that defers the credential check to each call (ensureCredentials*)
(* per method); the other rejects empty credentials in its constructor, so *)
(* none of its methods is ever called without credentials.                 *)
(***************************************************************************)
EXTENDS Naturals, Sequences, FiniteSets, TLC

VARIABLES config, call, started, boot, tool

vars == <<config, call, started, boot, tool>>

(* ------------------------------ bounds --------------------------------- *)

\* Number of gateway invocations one run may start.
MaxCalls == 2

\* Callers that may have a call in flight; Spec drives the first one.
AllCallers == {"c1", "c2"}
SeqCallers == {"c1"}

Usernames == {"", "admin"}
Passwords == {"", "admin123"}

Endpoints ==
  { "/status",
    "/service/rest/v1/status/check",
    "/service/rest/v1/status/writable",
    "/repositories/foo" }

Methods == {"get", "post", "put", "delete", "testConnection"}
Clients == {"nexus", "firewall"}

\* Upstream status codes: both sides of every comparison of the classifier.
Statuses == {200, 399, 400, 401, 403, 404, 409, 499, 500, 503}

(* --------------------------- JavaScript values ------------------------- *)

\* An optional value (undefined, or present) is a sequence of length <= 1.
None == <<>>
Some(v) == <<v>>

\* JavaScript truthiness of an optional string: undefined and "" are falsy.
Truthy(opt) == opt # None /\ opt[1] # ""

\* Response bodies: no body at all, and JSON objects with optional
\* message / error fields.
NoBody == [t |-> "none", message |-> None, error |-> None]
Obj(m, e) == [t |-> "object", message |-> m, error |-> e]

Bodies ==
  { NoBody,
    Obj(None, None),
    Obj(Some("no privilege"), None),
    Obj(None, Some("Forbidden")),
    Obj(Some(""), Some("Forbidden")) }

\* String.prototype.includes, startsWith and slice(n) on the strings of the
\* model: a string is searched position by position.
includes(s, sub) ==
  \E i \in 1..(Len(s) + 1) :
    /\ i + Len(sub) - 1 <= Len(s)
    /\ SubSeq(s, i, i + Len(sub) - 1) = sub
startsWith(s, prefix) ==
  Len(prefix) <= Len(s) /\ SubSeq(s, 1, Len(prefix)) = prefix
slice(s, n) == SubSeq(s, n + 1, Len(s))

\* String.prototype.indexOf of a one-character string (0 when absent; the
\* positions of the model count from 1).
indexOf(s, ch) ==
  IF includes(s, ch)
    THEN CHOOSE i \in 1..Len(s) :
           /\ SubSeq(s, i, i) = ch
           /\ \A k \in 1..(i - 1) : SubSeq(s, k, k) # ch
  ELSE 0

\* String.prototype.split with a one-character separator.
RECURSIVE split(_, _)
split(s, sep) ==
  LET i == indexOf(s, sep) IN
  IF i = 0 THEN << s >>
  ELSE << SubSeq(s, 1, i - 1) >> \o split(SubSeq(s, i + 1, Len(s)), sep)

\* String.prototype.trim (the white space of the model is the blank).
RECURSIVE trim(_)
trim(s) ==
  IF s = "" THEN s
  ELSE IF SubSeq(s, 1, 1) = " " THEN trim(SubSeq(s, 2, Len(s)))
  ELSE IF SubSeq(s, Len(s), Len(s)) = " " THEN trim(SubSeq(s, 1, Len(s) - 1))
  ELSE s

\* /^\d+$/ and Number() on a string of digits.
Digits == << "0", "1", "2", "3", "4", "5", "6", "7", "8", "9" >>
isDigits(s) ==
  /\ Len(s) > 0
  /\ \A i \in 1..Len(s) : \E d \in 1..10 : SubSeq(s, i, i) = Digits[d]
RECURSIVE Number(_)
Number(s) ==
  IF s = "" THEN 0
  ELSE LET last == SubSeq(s, Len(s), Len(s))
           d == CHOOSE k \in 1..10 : Digits[k] = last
       IN Number(SubSeq(s, 1, Len(s) - 1)) * 10 + (d - 1)

(* ------------------------------ errors.ts ------------------------------ *)

NexusError(message, statusCode, nexusResponse) ==
  [name |-> "NexusError", message |-> message,
   statusCode |-> Some(statusCode), nexusResponse |-> nexusResponse]

ConfigurationError(message) ==
  [name |-> "ConfigurationError", message |-> message,
   statusCode |-> None, nexusResponse |-> NoBody]

AuthenticationError(message) ==
  [name |-> "AuthenticationError", message |-> message,
   statusCode |-> None, nexusResponse |-> NoBody]

ValidationError(message) ==
  [name |-> "ValidationError", message |-> message,
   statusCode |-> None, nexusResponse |-> NoBody]

\* A plain Error raised by the HTTP library or the runtime.
PlainError(message) ==
  [name |-> "Error", message |-> message,
   statusCode |-> None, nexusResponse |-> NoBody]

\* What a catch block can hold: an error value with the optional response
\* and request that the HTTP library (or `throw { response }`) attaches.
Caught(err, response, request) ==
  [err |-> err, response |-> response, request |-> request]

\* upstreamMessage without its fallback to the error field.
upstreamMessageNoError(data) ==
  IF Truthy(data.message) THEN data.message[1] ELSE "Unknown API error"

\* data?.message || data?.error || 'Unknown API error'
upstreamMessage(data) ==
  IF Truthy(data.message) THEN data.message[1]
  ELSE IF Truthy(data.error) THEN data.error[1]
  ELSE "Unknown API error"

\* classifyResponse without its 403 branch.
classifyResponseNo403(status, data) ==
  LET message == upstreamMessage(data) IN
  IF status = 401 THEN AuthenticationError("Authentication failed: " \o message)
  ELSE IF status = 404
    THEN NexusError("Resource not found: " \o message, status, data)
  ELSE IF status >= 400 /\ status < 500
    THEN ValidationError("Client error: " \o message)
  ELSE NexusError("Nexus API error: " \o message, status, data)

\* classifyResponse that leaves the response body out of the 404 failure.
classifyResponseDropsBody(status, data) ==
  LET message == upstreamMessage(data) IN
  IF status = 401 THEN AuthenticationError("Authentication failed: " \o message)
  ELSE IF status = 403 THEN AuthenticationError("Access denied: " \o message)
  ELSE IF status = 404
    THEN NexusError("Resource not found: " \o message, status, NoBody)
  ELSE IF status >= 400 /\ status < 500
    THEN ValidationError("Client error: " \o message)
  ELSE NexusError("Nexus API error: " \o message, status, data)

\* classifyResponse whose client-error range ends at 500 inclusive.
classifyResponseOffByOne(status, data) ==
  LET message == upstreamMessage(data) IN
  IF status = 401 THEN AuthenticationError("Authentication failed: " \o message)
  ELSE IF status = 403 THEN AuthenticationError("Access denied: " \o message)
  ELSE IF status = 404
    THEN NexusError("Resource not found: " \o message, status, data)
  ELSE IF status >= 400 /\ status <= 500
    THEN ValidationError("Client error: " \o message)
  ELSE NexusError("Nexus API error: " \o message, status, data)

\* The branch of handleNexusError taken when error.response is set.
classifyResponse(status, data) ==
  LET message == upstreamMessage(data) IN
  IF status = 401 THEN AuthenticationError("Authentication failed: " \o message)
  ELSE IF status = 403 THEN AuthenticationError("Access denied: " \o message)
  ELSE IF status = 404
    THEN NexusError("Resource not found: " \o message, status, data)
  ELSE IF status >= 400 /\ status < 500
    THEN ValidationError("Client error: " \o message)
  ELSE NexusError("Nexus API error: " \o message, status, data)

\* The branch taken when a request was sent and no response came back.
networkFailure ==
  NexusError("Network error: Unable to connect to Nexus server", 0, NoBody)

\* The branch taken when the error has neither a response nor a request.
setupFailure(error) ==
  NexusError("Request setup error: " \o error.err.message, 0, NoBody)

\* handleNexusError without its error.request branch.
handleNexusErrorNoRequestBranch(error) ==
  IF error.response # None
    THEN classifyResponse(error.response[1].status, error.response[1].data)
  ELSE setupFailure(error)

\* handleNexusError never returns: its value here is the error it throws.
handleNexusError(error) ==
  IF error.response # None
    THEN classifyResponse(error.response[1].status, error.response[1].data)
  ELSE IF error.request THEN networkFailure
  ELSE setupFailure(error)

formatMCPError(error) ==
  IF error.name = "NexusError"
    THEN [code |-> "NEXUS_ERROR_" \o ToString(error.statusCode[1]),
          message |-> error.message]
  ELSE IF error.name = "AuthenticationError"
    THEN [code |-> "AUTHENTICATION_ERROR", message |-> error.message]
  ELSE IF error.name = "ValidationError"
    THEN [code |-> "VALIDATION_ERROR", message |-> error.message]
  ELSE IF error.name = "ConfigurationError"
    THEN [code |-> "CONFIGURATION_ERROR", message |-> error.message]
  ELSE [code |-> "UNKNOWN_ERROR",
        message |-> IF error.message # "" THEN error.message
                    ELSE "An unknown error occurred"]

(* ------------------------------- auth.ts ------------------------------- *)

\* Buffer.from(s).toString('base64'): an injective encoding of s.
base64(s) == "base64(" \o s \o ")"

generateBasicAuthHeader(username, password) ==
  "Basic " \o base64(username \o ":" \o password)

\* A header bag, reduced to the one header the gateway decides on.
NoHeaders == [Authorization |-> None]

createAuthHeaders(cfg) ==
  [Authorization |->
     Some(generateBasicAuthHeader(cfg.nexus.username, cfg.nexus.password))]

\* validateCredentials that looks at the username only.
validateCredentialsUserOnly(cfg) == cfg.nexus.username # ""

validateCredentials(cfg) ==
  IF cfg.nexus.username = "" \/ cfg.nexus.password = "" THEN FALSE
  ELSE Len(cfg.nexus.username) > 0 /\ Len(cfg.nexus.password) > 0

\* Object spread / Object.assign: { ...a, ...b }, the later bag wins.
spread(a, b) ==
  [Authorization |->
     IF b.Authorization # None THEN b.Authorization ELSE a.Authorization]

(* --------------------------- firewall-client.ts ------------------------ *)

validateFirewallCredentials(cfg) ==
  /\ cfg.firewall # None
  /\ cfg.firewall[1].username # ""
  /\ cfg.firewall[1].password # ""

createFirewallAuthHeaders(cfg) ==
  IF cfg.firewall = None
     \/ cfg.firewall[1].username = "" \/ cfg.firewall[1].password = ""
    THEN NoHeaders
  ELSE [Authorization |->
          Some("Basic " \o base64(cfg.firewall[1].username \o ":"
                                   \o cfg.firewall[1].password))]

(* ------------------------- the two gateway clients --------------------- *)

\* Headers given to axios.create by the constructor of each client.
instanceHeaders(client, cfg) ==
  IF client = "nexus"
    THEN IF validateCredentials(cfg) THEN createAuthHeaders(cfg) ELSE NoHeaders
  ELSE IF validateFirewallCredentials(cfg)
    THEN createFirewallAuthHeaders(cfg) ELSE NoHeaders

hasCredentials(client, cfg) ==
  IF client = "nexus" THEN validateCredentials(cfg)
  ELSE validateFirewallCredentials(cfg)

\* The error ensureCredentials throws.
credentialsError(client) ==
  IF client = "nexus"
    THEN AuthenticationError("Nexus credentials not configured. Please set NEXUS_USERNAME and NEXUS_PASSWORD environment variables.")
  ELSE AuthenticationError("Firewall credentials not configured. Please set --firewall-username and --firewall-password arguments or FIREWALL_USERNAME and FIREWALL_PASSWORD environment variables.")

readOnlyError ==
  AuthenticationError("Write operations are disabled in read-only mode")

\* The read-only gate left out.
writeBlockedNever(cfg) == FALSE

\* if (this.config.server.readOnly) at the head of post, put and delete.
writeBlocked(cfg) == cfg.server.readOnly

\* The endpoints NexusClient.get lets through without credentials.
credentialsNeeded(endpoint) ==
  ~includes(endpoint, "/status/check") /\ ~includes(endpoint, "/status/writable")

\* The status test with > in place of >=.
isErrorStatusAbove400(status) == status > 400

\* if (response.status >= 400) throw { response }
isErrorStatus(status) == status >= 400

\* The request as it leaves the HTTP library: the instance's default
\* headers with the per-request headers laid over them.
Request(client, verb, url, headers) ==
  [method |-> verb, url |-> url,
   headers |-> spread(instanceHeaders(client, config), headers)]

\* The part of a call before its await: either the error it raises there,
\* or the request it hands to the HTTP library.
Raise(err) == [raise |-> Some(err), send |-> None, caught |-> None]
Send(req) == [raise |-> None, send |-> Some(req), caught |-> None]
\* An error thrown inside the try block: the catch block hands it to
\* handleNexusError.
Catch(error) ==
  [raise |-> Some(handleNexusError(error)), send |-> None, caught |-> Some(error)]

\* NexusClient.get: the credential check sits inside the try block, so its
\* error goes through the catch block and handleNexusError.
nexusGet(endpoint, options) ==
  IF credentialsNeeded(endpoint) /\ ~hasCredentials("nexus", config)
    THEN Catch(Caught(credentialsError("nexus"), None, FALSE))
  ELSE Send(Request("nexus", "GET", endpoint,
                    IF hasCredentials("nexus", config)
                      THEN spread(options.headers, createAuthHeaders(config))
                      ELSE options.headers))

\* FirewallClient.get: ensureCredentials is called before the try block.
firewallGet(endpoint, options) ==
  IF ~hasCredentials("firewall", config)
    THEN Raise(credentialsError("firewall"))
  ELSE Send(Request("firewall", "GET", endpoint,
                    spread(options.headers, createFirewallAuthHeaders(config))))

\* write with its two gates in the other order.
writeCredentialsFirst(client, verb, endpoint, options) ==
  IF ~hasCredentials(client, config) THEN Raise(credentialsError(client))
  ELSE IF writeBlocked(config) THEN Raise(readOnlyError)
  ELSE Send(Request(client, verb, endpoint,
                    spread(IF client = "nexus" THEN createAuthHeaders(config)
                           ELSE createFirewallAuthHeaders(config),
                           options.headers)))

\* post, put and delete of both clients: read-only gate, credential gate,
\* then the request with the caller's headers laid over the auth headers.
write(client, verb, endpoint, options) ==
  IF writeBlocked(config) THEN Raise(readOnlyError)
  ELSE IF ~hasCredentials(client, config) THEN Raise(credentialsError(client))
  ELSE Send(Request(client, verb, endpoint,
                    spread(IF client = "nexus" THEN createAuthHeaders(config)
                           ELSE createFirewallAuthHeaders(config),
                           options.headers)))

\* testConnection: a bare GET of the probe path on the axios instance.
probePath(client) ==
  IF client = "nexus" THEN "/service/rest/v1/status/check"
  ELSE "/api/v2/reports/components/quarantined?limit=1"

testConnection(client) == Send(Request(client, "GET", probePath(client), NoHeaders))

\* The probe of NexusClient with the status test of FirewallClient.
probeResultBelow400(client, status) == status < 400

\* What testConnection makes of the response status.
probeResult(client, status) ==
  IF client = "nexus" THEN status = 200 ELSE status < 400

beforeAwait(client, method, endpoint, options) ==
  IF method = "testConnection" THEN testConnection(client)
  ELSE IF method = "get"
    THEN IF client = "nexus" THEN nexusGet(endpoint, options)
         ELSE firewallGet(endpoint, options)
  ELSE IF method = "post" THEN write(client, "POST", endpoint, options)
  ELSE IF method = "put" THEN write(client, "PUT", endpoint, options)
  ELSE write(client, "DELETE", endpoint, options)

(* ------------------------- config/environment.ts ----------------------- *)

\* JS values that are a string, a number or an array, told apart by shape.
Str(s) == [str |-> s]
Num(n) == [num |-> n]
Arr(a) == [arr |-> a]

\* .length and .includes(x) of a string or an array.
jsLength(v) == IF "str" \in DOMAIN v THEN Len(v.str) ELSE Len(v.arr)
jsIncludes(v, x) ==
  IF "str" \in DOMAIN v THEN includes(v.str, x)
  ELSE \E i \in 1..Len(v.arr) : v.arr[i] = x

\* process.env with no variable set.
NoEnv ==
  [NEXUS_BASE_URL |-> None, NEXUS_USERNAME |-> None, NEXUS_PASSWORD |-> None,
   NEXUS_TIMEOUT |-> None, NEXUS_VALIDATE_SSL |-> None,
   FIREWALL_BASE_URL |-> None, FIREWALL_USERNAME |-> None,
   FIREWALL_PASSWORD |-> None, FIREWALL_TIMEOUT |-> None,
   FIREWALL_VALIDATE_SSL |-> None, MCP_SERVER_NAME |-> None,
   MCP_SERVER_VERSION |-> None, READ_ONLY_MODE |-> None,
   ENABLED_TOOLS |-> None]

\* z.string().default(d): the variable's value, or d when it is not set.
orDefault(opt, d) == IF opt = None THEN d ELSE opt[1]

\* z.string().url(): the strings of the model that are URLs name a scheme.
isUrl(s) == includes(s, "://")

\* envSchema.parse(process.env): None when parse throws.
envSchema(env) ==
  LET baseUrl == orDefault(env.NEXUS_BASE_URL, "http://localhost:8081")
      timeout == orDefault(env.NEXUS_TIMEOUT, "30000")
      firewallBaseUrl == orDefault(env.FIREWALL_BASE_URL, "http://localhost:8070")
      firewallTimeout == orDefault(env.FIREWALL_TIMEOUT, "30000")
  IN IF ~isUrl(baseUrl) \/ ~isUrl(firewallBaseUrl)
          \/ ~isDigits(timeout) \/ ~isDigits(firewallTimeout)
       THEN None
     ELSE Some(
       [NEXUS_BASE_URL |-> baseUrl,
        NEXUS_USERNAME |-> orDefault(env.NEXUS_USERNAME, ""),
        NEXUS_PASSWORD |-> orDefault(env.NEXUS_PASSWORD, ""),
        NEXUS_TIMEOUT |-> Number(timeout),
        NEXUS_VALIDATE_SSL |-> orDefault(env.NEXUS_VALIDATE_SSL, "true") # "false",
        FIREWALL_BASE_URL |-> firewallBaseUrl,
        FIREWALL_USERNAME |-> orDefault(env.FIREWALL_USERNAME, ""),
        FIREWALL_PASSWORD |-> orDefault(env.FIREWALL_PASSWORD, ""),
        FIREWALL_TIMEOUT |-> Number(firewallTimeout),
        FIREWALL_VALIDATE_SSL |->
          orDefault(env.FIREWALL_VALIDATE_SSL, "true") # "false",
        MCP_SERVER_NAME |-> orDefault(env.MCP_SERVER_NAME, "sonatype-mcp"),
        MCP_SERVER_VERSION |-> orDefault(env.MCP_SERVER_VERSION, "1.4.0"),
        READ_ONLY_MODE |-> orDefault(env.READ_ONLY_MODE, "false") = "true",
        ENABLED_TOOLS |->
          IF Truthy(env.ENABLED_TOOLS)
            THEN LET parts == split(env.ENABLED_TOOLS[1], ",")
                 IN [i \in 1..Len(parts) |-> trim(parts[i])]
          ELSE << >>])

\* The keys loadEnvironment reads from the parsed command line.
ArgKeys ==
  { "nexus-url", "nexus-username", "nexus-password", "nexus-timeout",
    "nexus-validate-ssl", "firewall-url", "firewall-username",
    "firewall-password", "firewall-timeout", "firewall-validate-ssl",
    "read-only", "enabled-tools", "debug" }
BooleanFlags ==
  { "debug", "read-only", "nexus-validate-ssl", "firewall-validate-ssl" }
NoArgs == [k \in ArgKeys |-> None]

\* setArg that keeps the value a key already has.
setArgOnce(args, key, value) ==
  IF key \in ArgKeys /\ args[key] = None
    THEN [args EXCEPT ![key] = Some(value)]
  ELSE args

\* args[key] = value; a key nobody reads is not kept.
setArg(args, key, value) ==
  IF key \in ArgKeys THEN [args EXCEPT ![key] = Some(value)] ELSE args

\* The loop of parseArgs from position i on.
RECURSIVE parseFrom(_, _, _)
parseFrom(argv, i, args) ==
  IF i > Len(argv) THEN args
  ELSE LET arg == argv[i] IN
    IF startsWith(arg, "--")
      THEN LET key == slice(arg, 2)
               nextArg == IF i + 1 <= Len(argv) THEN Some(argv[i + 1]) ELSE None
           IN IF key \in BooleanFlags
                THEN parseFrom(argv, i + 1, setArg(args, key, TRUE))
              ELSE IF Truthy(nextArg) /\ ~startsWith(nextArg[1], "--")
                THEN parseFrom(argv, i + 2, setArg(args, key, nextArg[1]))
              ELSE parseFrom(argv, i + 1, args)
    ELSE parseFrom(argv, i + 1, args)

parseArgs(argv) == parseFrom(argv, 1, NoArgs)

\* cmdArgs[key] || fallback, for a key whose value is a string.
orElse(opt, fallback) == IF Truthy(opt) THEN opt[1] ELSE fallback

\* loadEnvironment: None when envSchema.parse throws.
loadEnvironment(argv, env) ==
  LET cmdArgs == parseArgs(argv)
      parsed == envSchema(env)
  IN IF parsed = None THEN None
     ELSE LET e == parsed[1] IN Some(
       [baseUrl |-> orElse(cmdArgs["nexus-url"], e.NEXUS_BASE_URL),
        username |-> orElse(cmdArgs["nexus-username"], e.NEXUS_USERNAME),
        password |-> orElse(cmdArgs["nexus-password"], e.NEXUS_PASSWORD),
        timeout |-> IF Truthy(cmdArgs["nexus-timeout"])
                      THEN Str(cmdArgs["nexus-timeout"][1])
                    ELSE Num(e.NEXUS_TIMEOUT),
        validateSsl |-> cmdArgs["nexus-validate-ssl"] # Some(FALSE)
                          /\ e.NEXUS_VALIDATE_SSL,
        firewallBaseUrl |-> orElse(cmdArgs["firewall-url"], e.FIREWALL_BASE_URL),
        firewallUsername |->
          orElse(cmdArgs["firewall-username"], e.FIREWALL_USERNAME),
        firewallPassword |->
          orElse(cmdArgs["firewall-password"], e.FIREWALL_PASSWORD),
        firewallTimeout |-> IF Truthy(cmdArgs["firewall-timeout"])
                              THEN Str(cmdArgs["firewall-timeout"][1])
                            ELSE Num(e.FIREWALL_TIMEOUT),
        firewallValidateSsl |-> cmdArgs["firewall-validate-ssl"] # Some(FALSE)
                                  /\ e.FIREWALL_VALIDATE_SSL,
        serverName |-> e.MCP_SERVER_NAME,
        serverVersion |-> e.MCP_SERVER_VERSION,
        readOnly |-> cmdArgs["read-only"] = Some(TRUE) \/ e.READ_ONLY_MODE,
        enabledTools |-> IF Truthy(cmdArgs["enabled-tools"])
                           THEN Str(cmdArgs["enabled-tools"][1])
                         ELSE Arr(e.ENABLED_TOOLS),
        debug |-> cmdArgs["debug"] = Some(TRUE)])

\* createConfig that adds the Firewall section as soon as a user name is set.
createConfigUserOnly(argv, env) ==
  LET loaded == loadEnvironment(argv, env)[1] IN
  [nexus |-> [baseUrl |-> loaded.baseUrl, username |-> loaded.username,
              password |-> loaded.password, timeout |-> loaded.timeout,
              validateSsl |-> loaded.validateSsl],
   server |-> [name |-> loaded.serverName, version |-> loaded.serverVersion,
               readOnly |-> loaded.readOnly],
   features |-> [enabledTools |-> loaded.enabledTools],
   firewall |->
     IF loaded.firewallUsername # ""
       THEN Some([baseUrl |-> loaded.firewallBaseUrl,
                  username |-> loaded.firewallUsername,
                  password |-> loaded.firewallPassword,
                  timeout |-> loaded.firewallTimeout,
                  validateSsl |-> loaded.firewallValidateSsl])
     ELSE None]

\* createConfig, for a command line and environment that loadEnvironment
\* accepts.
createConfig(argv, env) ==
  LET loaded == loadEnvironment(argv, env)[1] IN
  [nexus |-> [baseUrl |-> loaded.baseUrl, username |-> loaded.username,
              password |-> loaded.password, timeout |-> loaded.timeout,
              validateSsl |-> loaded.validateSsl],
   server |-> [name |-> loaded.serverName, version |-> loaded.serverVersion,
               readOnly |-> loaded.readOnly],
   features |-> [enabledTools |-> loaded.enabledTools],
   firewall |->
     IF loaded.firewallUsername # "" /\ loaded.firewallPassword # ""
       THEN Some([baseUrl |-> loaded.firewallBaseUrl,
                  username |-> loaded.firewallUsername,
                  password |-> loaded.firewallPassword,
                  timeout |-> loaded.firewallTimeout,
                  validateSsl |-> loaded.firewallValidateSsl])
     ELSE None]

(* ----------------------------- tools/index.ts -------------------------- *)

NexusTools ==
  << "nexus_list_repositories", "nexus_get_repository",
     "nexus_delete_repository", "nexus_create_repository",
     "nexus_update_repository", "nexus_search_components",
     "nexus_get_component", "nexus_delete_component",
     "nexus_get_component_versions", "nexus_upload_component",
     "nexus_upload_multiple_assets", "nexus_upload_asset",
     "nexus_get_system_status", "nexus_list_blob_stores", "nexus_list_tasks",
     "nexus_get_usage_metrics", "nexus_generate_support_zip" >>

FirewallTools ==
  << "firewall_get_quarantined_components", "firewall_release_from_quarantine" >>

\* isToolEnabled of validation.ts.
isToolEnabled(toolName, enabledTools) ==
  jsLength(enabledTools) = 0 \/ jsIncludes(enabledTools, toolName)

\* The names of the tools createTools returns, in order.
createTools(cfg) ==
  LET allTools == IF cfg.firewall # None THEN NexusTools \o FirewallTools
                  ELSE NexusTools
      enabledTools == cfg.features.enabledTools
      enabled(name) == isToolEnabled(name, enabledTools)
  IN IF jsLength(enabledTools) = 0 THEN allTools
     ELSE SelectSeq(allTools, enabled)

\* getToolByName: whether tools.find yields a tool.
getToolByName(tools, name) == \E i \in 1..Len(tools) : tools[i] = name

(* ------------------------------ tool handlers -------------------------- *)

\* What the server keeps from its start: the command line and environment
\* it was started with and the names of the tools it registered.
NoBoot == [argv |-> << >>, env |-> NoEnv, tools |-> << >>]

\* encodeURIComponent on the characters of the model.
RECURSIVE encodeURIComponent(_)
encodeURIComponent(s) ==
  IF s = "" THEN ""
  ELSE LET ch == SubSeq(s, 1, 1)
           out == IF ch = "/" THEN "%2F" ELSE IF ch = " " THEN "%20" ELSE ch
       IN out \o encodeURIComponent(SubSeq(s, 2, Len(s)))

\* Argument bags of a tool call, by how they relate to the handler's zod
\* schema: conforming, a declared property with a value the schema rejects,
\* or conforming with one more key the schema does not declare.  value is the
\* name / id / repository argument; local tells whether the file an upload
\* names exists.  format, type, proxy.remoteUrl and group.memberNames are
\* read by nexus_create_repository, limit and offset by
\* nexus_search_components.
ArgValues == { "foo", "team/releases" }
ArgShapes == { "conforming", "wrongType", "unknownKey" }
ArgFormats == { "maven2", "npm" }
ArgTypes == { "hosted", "proxy", "group" }
ArgRemoteUrls == { None, Some(""), Some("https://repo1.maven.org/maven2/") }
ArgMemberNames == { None, Some(<< >>), Some(<< "maven-central" >>) }
ArgLimits == { None, Some(1), Some(1000) }
ArgOffsets == { None, Some(5) }
ArgBags ==
  [shape : ArgShapes, value : ArgValues, local : BOOLEAN,
   format : ArgFormats, type : ArgTypes, remoteUrl : ArgRemoteUrls,
   memberNames : ArgMemberNames, limit : ArgLimits, offset : ArgOffsets]

\* The bag { name: "foo" } of a tool that reads nothing else.
DefaultArgs ==
  [shape |-> "conforming", value |-> "foo", local |-> TRUE,
   format |-> "maven2", type |-> "hosted", remoteUrl |-> None,
   memberNames |-> None, limit |-> None, offset |-> None]

\* Handlers by what they do with the bag before the first service call.
StrictTools ==
  { "nexus_list_repositories", "nexus_delete_repository",
    "nexus_create_repository", "nexus_update_repository",
    "nexus_search_components", "nexus_delete_component",
    "nexus_get_component_versions" }
UnvalidatedTools == { "nexus_list_tasks", "nexus_get_usage_metrics" }
NoPropertyTools ==
  { "nexus_get_system_status", "nexus_list_blob_stores", "nexus_list_tasks",
    "nexus_get_usage_metrics" }
LocalCheckTools ==
  { "nexus_upload_component", "nexus_upload_multiple_assets",
    "nexus_upload_asset" }
ValueTools ==
  { "nexus_get_repository", "nexus_delete_repository",
    "nexus_update_repository", "nexus_get_component",
    "nexus_delete_component", "nexus_upload_component",
    "nexus_upload_multiple_assets", "nexus_upload_asset",
    "firewall_release_from_quarantine" }

\* Tools whose declared inputSchema closes the bag with
\* additionalProperties: false at its top level (all but the three uploads).
ClosedSchemaTools ==
  { "nexus_list_repositories", "nexus_get_repository",
    "nexus_delete_repository", "nexus_create_repository",
    "nexus_update_repository", "nexus_search_components",
    "nexus_get_component", "nexus_delete_component",
    "nexus_get_component_versions", "nexus_get_system_status",
    "nexus_list_blob_stores", "nexus_list_tasks", "nexus_get_usage_metrics",
    "nexus_generate_support_zip", "firewall_get_quarantined_components",
    "firewall_release_from_quarantine" }

\* The bags that differ for a tool.
ArgBagsOf(name) ==
  { a \in ArgBags :
      /\ a.shape = "wrongType" => name \notin NoPropertyTools
      /\ ~a.local => name \in LocalCheckTools
      /\ a.value # "foo" => name \in ValueTools
      /\ [a EXCEPT !.shape = "conforming", !.value = "foo", !.local = TRUE,
                   !.limit = None, !.offset = None] # DefaultArgs
           => name = "nexus_create_repository" /\ a.shape = "conforming"
      /\ (a.limit # None \/ a.offset # None)
           => name = "nexus_search_components" /\ a.shape = "conforming" }

\* validateInput: None when the schema accepts the bag, else the
\* ValidationError it throws.  A schema that is not strict strips keys it
\* does not declare.
validateInput(name, args) ==
  IF args.shape = "wrongType"
    THEN Some(ValidationError("Validation failed: name: Required"))
  ELSE IF args.shape = "unknownKey" /\ name \in StrictTools
    THEN Some(ValidationError(
           "Validation failed: : Unrecognized key(s) in object: 'unexpected'"))
  ELSE None

\* The validation step of a handler: two handlers take their parameters as
\* _params and never call validateInput.
handlerValidation(name, args) ==
  IF name \in UnvalidatedTools THEN None ELSE validateInput(name, args)

\* localFailure without the check of a group's members.
localFailureNoGroupCheck(name, args) ==
  IF name = "nexus_create_repository"
    THEN IF args.type = "proxy" /\ ~Truthy(args.remoteUrl)
           THEN Some(PlainError("Remote URL is required for proxy repositories"))
         ELSE None
  ELSE IF ~args.local THEN Some(PlainError("File not found: /tmp/artifact.jar"))
  ELSE None

\* The checks a handler makes itself after validation, before its first
\* gateway call: None when they pass, else the error the handler throws.
\* nexus_create_repository wants a truthy proxy.remoteUrl for a proxy and
\* group.memberNames with a member for a group; the uploads want the file.
localFailure(name, args) ==
  IF name = "nexus_create_repository"
    THEN IF args.type = "proxy" /\ ~Truthy(args.remoteUrl)
           THEN Some(PlainError("Remote URL is required for proxy repositories"))
         ELSE IF args.type = "group"
                 /\ (args.memberNames = None \/ Len(args.memberNames[1]) = 0)
           THEN Some(PlainError("Member names are required for group repositories"))
         ELSE None
  ELSE IF ~args.local THEN Some(PlainError("File not found: /tmp/artifact.jar"))
  ELSE None

\* Query parameters as axios lays them on the URL of the request.
RECURSIVE queryString(_)
queryString(pairs) ==
  IF pairs = << >> THEN ""
  ELSE (IF Len(pairs) = 1 THEN "" ELSE queryString(SubSeq(pairs, 1, Len(pairs) - 1)))
       \o (IF Len(pairs) = 1 THEN "?" ELSE "&")
       \o pairs[Len(pairs)][1] \o "=" \o encodeURIComponent(pairs[Len(pairs)][2])

\* The limit and offset of a validated search bag, with the defaults of
\* searchComponentsSchema.
searchLimit(args) == IF args.limit = None THEN 25 ELSE args.limit[1]
searchOffset(args) == IF args.offset = None THEN 0 ELSE args.offset[1]

\* queryParams of ComponentService.searchComponents: the filters of the
\* bag (here the repository); limit and offset are not copied.
searchQueryParams(args) == << << "repository", args.value >> >>

\* The text each handler's catch block puts before the error message.
ErrorPrefix(name) ==
  CASE name = "nexus_list_repositories" -> "Error listing repositories: "
    [] name = "nexus_get_repository" -> "Error getting repository: "
    [] name = "nexus_delete_repository" -> "Error deleting repository: "
    [] name = "nexus_create_repository" -> "Error creating repository: "
    [] name = "nexus_update_repository" -> "Error updating repository: "
    [] name = "nexus_search_components" -> "Error searching components: "
    [] name = "nexus_get_component" -> "Error getting component: "
    [] name = "nexus_delete_component" -> "Error deleting component: "
    [] name = "nexus_get_component_versions" ->
         "Error getting component versions: "
    [] name \in { "nexus_upload_component", "nexus_upload_multiple_assets",
                  "nexus_upload_asset" } -> "Error: "
    [] name = "nexus_get_system_status" -> "Error getting system status: "
    [] name = "nexus_list_blob_stores" -> "Error listing blob stores: "
    [] name = "nexus_list_tasks" -> "Error listing tasks: "
    [] name = "nexus_get_usage_metrics" -> "Error getting usage metrics: "
    [] name = "nexus_generate_support_zip" -> "Error generating support zip: "
    [] name = "firewall_get_quarantined_components" ->
         "Error retrieving quarantined components from Firewall: "
    [] OTHER -> "Error releasing component from Firewall quarantine: "

\* The paragraphs of guidance four catch blocks choose from (each by its
\* first sentence).
MissingPrivilege(name) ==
  CASE name = "nexus_get_usage_metrics" ->
         "\n\nThe user lacks the required \"nexus:metrics:read\" privilege."
    [] name = "nexus_generate_support_zip" ->
         "\n\nThe user may lack administrative privileges required to generate support zip files."
    [] name = "firewall_get_quarantined_components" ->
         "\n\nThe user may lack the required privileges to access Firewall quarantine information. "
    [] OTHER ->
         "\n\nThe user may lack the required privileges to release components from Firewall quarantine. "
NotFoundGuidance(name) ==
  CASE name = "nexus_get_usage_metrics" -> "\n\nPossible causes:\n"
    [] name = "firewall_get_quarantined_components" ->
         "\n\nThe Firewall quarantine API may not be available. This could indicate:"
    [] OTHER ->
         "\n\nThe quarantine ID may not exist or may have already been released. "
CredentialsGuidance ==
  "\n\nFirewall credentials are required. Please provide --firewall-username and --firewall-password arguments."
ConnectGuidance == "\n\nCannot connect to Firewall. Check that:"

\* The if / else-if chain of a catch block over mcpError.message: what it
\* appends to the error text.
guidance(name, error) ==
  LET message == formatMCPError(error).message
      has(text) == includes(message, text)
  IN CASE name = "nexus_get_usage_metrics" ->
            IF has("Resource not found") \/ has("404") THEN NotFoundGuidance(name)
            ELSE IF has("Forbidden") \/ has("403") THEN MissingPrivilege(name)
            ELSE ""
       [] name = "nexus_generate_support_zip" ->
            IF has("Forbidden") \/ has("403") THEN MissingPrivilege(name)
            ELSE IF has("ENOENT") \/ has("EACCES")
              THEN "\n\nCheck that the output path exists and is writable."
            ELSE ""
       [] name = "firewall_get_quarantined_components" ->
            IF has("Forbidden") \/ has("403") THEN MissingPrivilege(name)
            ELSE IF has("Not Found") \/ has("404") THEN NotFoundGuidance(name)
            ELSE IF has("Firewall credentials not configured")
              THEN CredentialsGuidance
            ELSE IF has("ECONNREFUSED") \/ has("ENOTFOUND") THEN ConnectGuidance
            ELSE ""
       [] name = "firewall_release_from_quarantine" ->
            IF has("Forbidden") \/ has("403") THEN MissingPrivilege(name)
            ELSE IF has("Not Found") \/ has("404") THEN NotFoundGuidance(name)
            ELSE IF has("Bad Request") \/ has("400")
              THEN "\n\nThe request may be invalid. Check that the quarantine ID is properly formatted."
            ELSE IF has("Firewall credentials not configured")
              THEN CredentialsGuidance
            ELSE IF has("ECONNREFUSED") \/ has("ENOTFOUND") THEN ConnectGuidance
            ELSE ""
       [] OTHER -> ""

\* errorResult that leaves the error flag off.
errorResultUnflagged(name, error) ==
  [isError |-> FALSE,
   text |-> ErrorPrefix(name) \o formatMCPError(error).message
              \o guidance(name, error)]

\* What a handler's catch block returns: the prefix, the message and, in
\* four handlers, a paragraph of guidance.
errorResult(name, error) ==
  [isError |-> TRUE,
   text |-> ErrorPrefix(name) \o formatMCPError(error).message
              \o guidance(name, error)]

\* What a handler returns when its calls succeeded: a text rendering of the
\* data, kept here as the data.
successResult(data) == [isError |-> FALSE, payload |-> data]

\* The error a handler throws while it renders the data of its last call:
\* nexus_search_components reads response.items.length, which throws when
\* the data has no items.
renderFailure(name, data) ==
  IF name = "nexus_search_components" /\ "items" \notin DOMAIN data
    THEN Some(PlainError("Cannot read properties of undefined (reading 'length')"))
  ELSE None

\* What a handler returns after its last call succeeded;
\* nexus_search_components returns the items and their number.
handlerResult(name, data) ==
  IF name = "nexus_search_components"
    THEN [isError |-> FALSE,
          payload |-> [components |-> data.items, count |-> Len(data.items)]]
  ELSE successResult(data)

\* error.response?.status of the error a gateway call raised: the classified
\* failures carry statusCode and nexusResponse, and no response.
responseStatus(error) ==
  IF "response" \in DOMAIN error THEN Some(error.response.status) ELSE None

\* The test in the catch block of AdminService.getServiceMetricsData that
\* decides on the second request.
fallbackWanted(name, step, error) ==
  /\ name = "nexus_get_usage_metrics" /\ step = 1
  /\ responseStatus(error) = Some(404)

\* afterFailure where the update handler goes on to its PUT although its
\* GET raised.
afterFailureUpdateGoesOn(this, step, error) ==
  IF this.name = "nexus_update_repository" /\ step = 1
    THEN [this EXCEPT !.phase = "between", !.step = step]
  ELSE IF fallbackWanted(this.name, step, error)
    THEN [this EXCEPT !.phase = "between", !.step = step, !.first = Some(error)]
  ELSE LET thrown == IF this.first # None THEN this.first[1] ELSE error
       IN [this EXCEPT !.phase = "done", !.step = step,
                       !.caught = Some(thrown),
                       !.result = Some(errorResult(this.name, thrown))]

\* A gateway call of the handler raised: getServiceMetricsData goes on to
\* its second request, or throws the error of its first request when the
\* second failed; every other failure goes to the handler's catch block.
afterFailure(this, step, error) ==
  IF fallbackWanted(this.name, step, error)
    THEN [this EXCEPT !.phase = "between", !.step = step, !.first = Some(error)]
  ELSE LET thrown == IF this.first # None THEN this.first[1] ELSE error
       IN [this EXCEPT !.phase = "done", !.step = step,
                       !.caught = Some(thrown),
                       !.result = Some(errorResult(this.name, thrown))]

\* A property of a response body, as a template literal renders it.
rendered(data, property) ==
  IF property \in DOMAIN data /\ data[property] # None
    THEN data[property][1]
  ELSE "undefined"

ServiceCall(client, method, endpoint) ==
  [client |-> client, method |-> method, endpoint |-> endpoint]

\* The number of gateway calls a handler makes when each succeeds.
callCount(name) == IF name = "nexus_update_repository" THEN 2 ELSE 1

\* The gateway call a handler makes at a step; last is the data the step
\* before returned.
serviceCall(name, args, step, last) ==
  LET v == encodeURIComponent(args.value) IN
  CASE name = "nexus_list_repositories" ->
         ServiceCall("nexus", "get", "/service/rest/v1/repositories")
    [] name = "nexus_get_repository" ->
         ServiceCall("nexus", "get", "/service/rest/v1/repositories/" \o v)
    [] name = "nexus_delete_repository" ->
         ServiceCall("nexus", "delete", "/service/rest/v1/repositories/" \o v)
    [] name = "nexus_create_repository" ->
         ServiceCall("nexus", "post",
                     "/service/rest/v1/repositories/" \o args.format
                       \o "/" \o args.type)
    [] name = "nexus_update_repository" /\ step = 1 ->
         ServiceCall("nexus", "get", "/service/rest/v1/repositories/" \o v)
    [] name = "nexus_update_repository" /\ step # 1 ->
         ServiceCall("nexus", "put",
                     "/service/rest/v1/repositories/" \o rendered(last, "format")
                       \o "/" \o rendered(last, "type") \o "/" \o v)
    [] name = "nexus_search_components" ->
         ServiceCall("nexus", "get",
                     "/service/rest/v1/search"
                       \o queryString(searchQueryParams(args)))
    [] name = "nexus_get_component_versions" ->
         ServiceCall("nexus", "get", "/service/rest/v1/search")
    [] name = "nexus_get_component" ->
         ServiceCall("nexus", "get", "/service/rest/v1/components/" \o v)
    [] name = "nexus_delete_component" ->
         ServiceCall("nexus", "delete", "/service/rest/v1/components/" \o v)
    [] name \in { "nexus_upload_component", "nexus_upload_multiple_assets",
                  "nexus_upload_asset" } ->
         ServiceCall("nexus", "post",
                     "/service/rest/v1/components?repository=" \o v)
    [] name = "nexus_get_system_status" ->
         ServiceCall("nexus", "get", "/service/rest/v1/status/check")
    [] name = "nexus_list_blob_stores" ->
         ServiceCall("nexus", "get", "/service/rest/v1/blobstores")
    [] name = "nexus_list_tasks" ->
         ServiceCall("nexus", "get", "/service/rest/v1/tasks")
    [] name = "nexus_get_usage_metrics" /\ step = 1 ->
         ServiceCall("nexus", "get", "/service/metrics/data")
    [] name = "nexus_get_usage_metrics" /\ step # 1 ->
         ServiceCall("nexus", "get", "/service/rest/v1/metrics/data")
    [] name = "nexus_generate_support_zip" ->
         ServiceCall("nexus", "post", "/service/rest/v1/support/supportzip")
    [] name = "firewall_get_quarantined_components" ->
         ServiceCall("firewall", "get", "/api/v2/reports/components/quarantined")
    [] OTHER ->
         ServiceCall("firewall", "post",
                     "/api/v2/repositories/quarantine/" \o v \o "/release")

\* No tool call in progress.
ToolIdle ==
  [phase |-> "idle", name |-> "-", args |-> DefaultArgs,
   step |-> 0, last |-> NoBody, requests |-> << >>, answers |-> << >>,
   first |-> None, caught |-> None, result |-> None, escaped |-> None]

(* ------------------------------ state machine -------------------------- *)

\* Headers a caller may pass in options.headers.
HeaderOptions ==
  { [headers |-> NoHeaders],
    [headers |-> [Authorization |-> Some("Bearer caller-token")]] }

\* Errors the HTTP library raises before a request exists (neither
\* error.request nor error.response is set).
SetupErrors == { "Invalid URL", "Converting circular structure to JSON" }

\* Errors raised after the request was sent and before any response.
TransportErrors ==
  { "connect ECONNREFUSED", "getaddrinfo ENOTFOUND", "timeout of 30000ms exceeded" }

Idle ==
  [phase |-> "idle", client |-> "-", method |-> "-", endpoint |-> "-",
   options |-> [headers |-> NoHeaders],
   wire |-> <<>>, response |-> None, caught |-> None,
   returned |-> None, raised |-> None]

Configs ==
  { [nexus |-> [baseUrl |-> "http://localhost:8081", username |-> u,
                password |-> p, timeout |-> 30000],
     firewall |-> f,
     server |-> [readOnly |-> ro]] :
      u \in Usernames, p \in Passwords, ro \in BOOLEAN,
      f \in {None} \cup
            { Some([baseUrl |-> "http://localhost:8070", username |-> fu,
                    password |-> fp, timeout |-> 30000]) :
                fu \in Usernames, fp \in Passwords } }

\* The state after the clients were constructed from a configuration.
Init ==
  /\ config \in Configs
  /\ call = [c \in AllCallers |-> Idle]
  /\ started = 0
  /\ boot = NoBoot
  /\ tool = [c \in AllCallers |-> ToolIdle]

\* The FirewallClient constructor throws without config.firewall: there is
\* no such client to call then.
clientExists(client) == client = "nexus" \/ config.firewall # None

CanInvoke(c, client) ==
  /\ call[c].phase = "idle"
  /\ started < MaxCalls
  /\ clientExists(client)

\* A caller invokes a gateway method; the code runs up to its await.  It
\* either raises there, or hands one request to the HTTP library.
Invoke(c, client, method, endpoint, options) ==
  /\ CanInvoke(c, client)
  /\ started' = started + 1
  /\ LET pre == beforeAwait(client, method, endpoint, options)
         this == [Idle EXCEPT !.client = client, !.method = method,
                              !.endpoint = endpoint, !.options = options]
     IN call' = [call EXCEPT ![c] =
          IF pre.raise # None
            THEN [this EXCEPT !.phase = "done", !.raised = pre.raise,
                              !.caught = pre.caught]
          ELSE [this EXCEPT !.phase = "pending", !.wire = pre.send]]
  /\ UNCHANGED config

\* The HTTP library rejects the call before any request is sent.
InvokeSetupFails(c, client, method, endpoint, options, msg) ==
  /\ CanInvoke(c, client)
  /\ beforeAwait(client, method, endpoint, options).raise = None
  /\ started' = started + 1
  /\ LET error == Caught(PlainError(msg), None, FALSE)
         this == [Idle EXCEPT !.client = client, !.method = method,
                              !.endpoint = endpoint, !.options = options,
                              !.phase = "done", !.caught = Some(error)]
     IN call' = [call EXCEPT ![c] =
          IF method = "testConnection"
            THEN [this EXCEPT !.returned = Some(FALSE)]
          ELSE [this EXCEPT !.raised = Some(handleNexusError(error))]]
  /\ UNCHANGED config

\* Respond that drops the profile's password once the upstream answers 401.
RespondForgetsCredentials(c, status, data) ==
  /\ call[c].phase = "pending"
  /\ LET response == [status |-> status, data |-> data]
         this == [call[c] EXCEPT !.phase = "done", !.response = Some(response)]
     IN call' = [call EXCEPT ![c] =
          IF this.method = "testConnection"
            THEN [this EXCEPT !.returned = Some(probeResult(this.client, status))]
          ELSE IF isErrorStatus(status)
            THEN LET error == Caught(PlainError(""), Some(response), FALSE)
                 IN [this EXCEPT !.caught = Some(error),
                                 !.raised = Some(handleNexusError(error))]
          ELSE [this EXCEPT !.returned = Some(data)]]
  /\ config' = IF status = 401 THEN [config EXCEPT !.nexus.password = ""]
               ELSE config
  /\ UNCHANGED started

\* A response arrives (validateStatus accepts every status); the code after
\* the await runs.
Respond(c, status, data) ==
  /\ call[c].phase = "pending"
  /\ LET response == [status |-> status, data |-> data]
         this == [call[c] EXCEPT !.phase = "done", !.response = Some(response)]
     IN call' = [call EXCEPT ![c] =
          IF this.method = "testConnection"
            THEN [this EXCEPT !.returned = Some(probeResult(this.client, status))]
          ELSE IF isErrorStatus(status)
            THEN LET error == Caught(PlainError(""), Some(response), FALSE)
                 IN [this EXCEPT !.caught = Some(error),
                                 !.raised = Some(handleNexusError(error))]
          ELSE [this EXCEPT !.returned = Some(data)]]
  /\ UNCHANGED <<config, started>>

\* TransportFails that switches the profile to a fallback base URL.
TransportFailsFailover(c, msg) ==
  /\ call[c].phase = "pending"
  /\ LET error == Caught(PlainError(msg), None, TRUE)
         this == [call[c] EXCEPT !.phase = "done", !.caught = Some(error)]
     IN call' = [call EXCEPT ![c] =
          IF this.method = "testConnection"
            THEN [this EXCEPT !.returned = Some(FALSE)]
          ELSE [this EXCEPT !.raised = Some(handleNexusError(error))]]
  /\ config' = [config EXCEPT !.nexus.baseUrl = "http://localhost:8082"]
  /\ UNCHANGED started

\* TransportFails with one retry: the first failure sends the request again.
TransportFailsRetries(c, msg) ==
  /\ call[c].phase = "pending"
  /\ LET error == Caught(PlainError(msg), None, TRUE)
         this == [call[c] EXCEPT !.phase = "done", !.caught = Some(error)]
     IN call' = [call EXCEPT ![c] =
          IF Len(call[c].wire) < 2
            THEN [call[c] EXCEPT !.wire = Append(@, @[1])]
          ELSE IF this.method = "testConnection"
            THEN [this EXCEPT !.returned = Some(FALSE)]
          ELSE [this EXCEPT !.raised = Some(handleNexusError(error))]]
  /\ UNCHANGED <<config, started>>

\* TransportFails whose timeout never settles the awaited promise.
TransportFailsTimeoutHangs(c, msg) ==
  /\ call[c].phase = "pending"
  /\ LET error == Caught(PlainError(msg), None, TRUE)
         this == [call[c] EXCEPT !.phase = "done", !.caught = Some(error)]
     IN call' = [call EXCEPT ![c] =
          IF includes(msg, "timeout") THEN [call[c] EXCEPT !.phase = "hung"]
          ELSE IF this.method = "testConnection"
            THEN [this EXCEPT !.returned = Some(FALSE)]
          ELSE [this EXCEPT !.raised = Some(handleNexusError(error))]]
  /\ UNCHANGED <<config, started>>

\* The transport fails after the request was sent: connection refused, DNS
\* failure or timeout.  The library's error carries the request only.
TransportFails(c, msg) ==
  /\ call[c].phase = "pending"
  /\ LET error == Caught(PlainError(msg), None, TRUE)
         this == [call[c] EXCEPT !.phase = "done", !.caught = Some(error)]
     IN call' = [call EXCEPT ![c] =
          IF this.method = "testConnection"
            THEN [this EXCEPT !.returned = Some(FALSE)]
          ELSE [this EXCEPT !.raised = Some(handleNexusError(error))]]
  /\ UNCHANGED <<config, started>>

\* The caller takes the result of its finished call.
Collect(c) ==
  /\ call[c].phase = "done"
  /\ call' = [call EXCEPT ![c] = Idle]
  /\ UNCHANGED <<config, started>>

\* The clients called directly: no tool call is in progress.
Next ==
  \E c \in SeqCallers :
    \/ \E client \in Clients, method \in Methods, endpoint \in Endpoints,
          options \in HeaderOptions :
         Invoke(c, client, method, endpoint, options) /\ UNCHANGED <<boot, tool>>
    \/ \E client \in Clients, method \in Methods, endpoint \in Endpoints,
          options \in HeaderOptions, msg \in SetupErrors :
         InvokeSetupFails(c, client, method, endpoint, options, msg)
           /\ UNCHANGED <<boot, tool>>
    \/ \E status \in Statuses, data \in Bodies :
         Respond(c, status, data) /\ UNCHANGED <<boot, tool>>
    \/ \E msg \in TransportErrors :
         TransportFails(c, msg) /\ UNCHANGED <<boot, tool>>
    \/ Collect(c) /\ UNCHANGED <<boot, tool>>

Spec == Init /\ [][Next]_vars

(* ------------------------------ the server ----------------------------- *)

\* The state after NexusMCPServer loaded its configuration, built the
\* clients and registered the tools, for a command line and an environment
\* that loadEnvironment accepts (otherwise the server does not start).
InitServer(argvs, envs) ==
  \E argv \in argvs, env \in envs :
    /\ loadEnvironment(argv, env) # None
    /\ config = createConfig(argv, env)
    /\ boot = [argv |-> argv, env |-> env, tools |-> createTools(config)]
    /\ call = [c \in AllCallers |-> Idle]
    /\ started = 0
    /\ tool = [c \in AllCallers |-> ToolIdle]

\* The handler hands a call to the gateway and either catches what the
\* gateway raises at once or awaits the response.
Dispatch(c, this, step) ==
  LET next == serviceCall(this.name, this.args, step, this.last) IN
  /\ Invoke(c, next.client, next.method, next.endpoint, [headers |-> NoHeaders])
  /\ tool' = [tool EXCEPT ![c] =
       IF call'[c].raised # None
         THEN afterFailure(this, step, call'[c].raised[1])
       ELSE [this EXCEPT !.phase = "running", !.step = step,
                         !.requests = @ \o call'[c].wire]]

\* The call-tool request handler up to the first await of the tool's
\* handler: look the tool up (an unknown name throws outside the try block),
\* then validation, the handler's own checks and the first gateway call.
\* Every handler body is one try block whose catch returns an error result,
\* so nothing reaches the catch of the request handler itself.
CallTool(c, name, args) ==
  /\ tool[c].phase = "idle" /\ call[c].phase = "idle"
  /\ LET this == [ToolIdle EXCEPT !.name = name, !.args = args]
         invalid == handlerValidation(name, args)
         fails(error) ==
           /\ tool' = [tool EXCEPT ![c] =
                [this EXCEPT !.phase = "done", !.caught = Some(error),
                             !.result = Some(errorResult(name, error))]]
           /\ UNCHANGED <<config, call, started>>
     IN IF ~getToolByName(boot.tools, name)
          THEN /\ tool' = [tool EXCEPT ![c] =
                    [this EXCEPT !.phase = "done",
                       !.escaped = Some(PlainError("Tool not found: " \o name))]]
               /\ UNCHANGED <<config, call, started>>
        ELSE IF invalid # None THEN fails(invalid[1])
        ELSE IF localFailure(name, args) # None
          THEN fails(localFailure(name, args)[1])
        ELSE Dispatch(c, this, 1)
  /\ UNCHANGED boot

\* The awaited gateway call has ended and the handler resumes: its catch
\* block turns a failure into an error result; after the last call it
\* returns the success result.
ToolReturn(c) ==
  /\ tool[c].phase = "running"
  /\ Collect(c)
  /\ LET this == [tool[c] EXCEPT !.answers = @ \o call[c].response] IN
     tool' = [tool EXCEPT ![c] =
       IF call[c].raised # None
         THEN afterFailure(this, this.step, call[c].raised[1])
       ELSE IF this.step < callCount(this.name)
         THEN [this EXCEPT !.phase = "between", !.last = call[c].returned[1]]
       ELSE IF renderFailure(this.name, call[c].returned[1]) # None
         THEN afterFailure(this, this.step,
                           renderFailure(this.name, call[c].returned[1])[1])
       ELSE [this EXCEPT !.phase = "done",
                         !.result = Some(handlerResult(this.name,
                                                       call[c].returned[1]))]]
  /\ UNCHANGED boot

\* The handler makes its next gateway call.
ToolNext(c) ==
  /\ tool[c].phase = "between"
  /\ Dispatch(c, tool[c], tool[c].step + 1)
  /\ UNCHANGED boot

\* The result (or the error that escaped) goes back to the MCP client.
ToolDeliver(c) ==
  /\ tool[c].phase = "done"
  /\ tool' = [tool EXCEPT ![c] = ToolIdle]
  /\ call' = [call EXCEPT ![c] = Idle]
  /\ UNCHANGED <<config, started, boot>>

\* A name no tool has: nexus_get_metrics is defined and never registered.
UnknownTool == "nexus_get_metrics"

(* ---- tool calls on a started server ---- *)

ToolArgvs ==
  { << >>, << "--read-only" >>,
    << "--nexus-username", "admin", "--nexus-password", "admin123" >>,
    << "--nexus-username", "admin", "--nexus-password", "admin123",
       "--read-only" >> }
ToolEnvs ==
  { NoEnv,
    [NoEnv EXCEPT !.FIREWALL_USERNAME = Some("fw-admin"),
                  !.FIREWALL_PASSWORD = Some("fw-secret")] }
ToolStatuses == { 200, 401, 403, 404, 500 }

\* Bodies of the upstream's answers: none, an error message, a repository
\* with its format and type, and a page of two components.
RepositoryBody ==
  [t |-> "object", message |-> None, error |-> None,
   format |-> Some("npm"), type |-> Some("proxy")]
ItemsBody ==
  [t |-> "object", message |-> None, error |-> None,
   items |-> << "component-1", "component-2" >>]
ToolBodies ==
  { NoBody, Obj(Some("no privilege"), None), Obj(None, Some("Forbidden")),
    RepositoryBody, ItemsBody }

InitTools == InitServer(ToolArgvs, ToolEnvs)

NextTools ==
  \E c \in SeqCallers :
    \/ \E i \in 1..Len(NexusTools) : \E args \in ArgBagsOf(NexusTools[i]) :
         CallTool(c, NexusTools[i], args)
    \/ \E i \in 1..Len(FirewallTools) :
         \E args \in ArgBagsOf(FirewallTools[i]) :
           CallTool(c, FirewallTools[i], args)
    \/ \E args \in ArgBagsOf(UnknownTool) : CallTool(c, UnknownTool, args)
    \/ \E status \in ToolStatuses, data \in ToolBodies :
         Respond(c, status, data) /\ UNCHANGED <<boot, tool>>
    \/ TransportFails(c, "connect ECONNREFUSED") /\ UNCHANGED <<boot, tool>>
    \/ ToolReturn(c)
    \/ ToolNext(c)
    \/ ToolDeliver(c)

SpecTools == InitTools /\ [][NextTools]_vars

(* ---- servers started from any command line and environment ---- *)

\* Flags with their values, as they follow each other on the command line.
ArgGroups ==
  { << "--nexus-url", "http://nexus.example.com:8081" >>,
    << "--nexus-username", "admin" >>,
    << "--nexus-password", "admin123" >>,
    << "--nexus-timeout", "5000" >>,
    << "--nexus-validate-ssl" >>,
    << "--read-only" >>,
    << "--enabled-tools" >>,
    << "--enabled-tools", "nexus_get_component_versions" >>,
    << "--enabled-tools",
       "nexus_list_repositories,firewall_get_quarantined_components" >>,
    << "--firewall-username", "fw-admin" >>,
    << "--firewall-password", "fw-secret" >> }
Argvs ==
  { << >> } \cup ArgGroups \cup { a \o b : a \in ArgGroups, b \in ArgGroups }

\* Environment variables with a value.
EnvSettings ==
  { << "NEXUS_BASE_URL", "http://localhost:9081" >>,
    << "NEXUS_USERNAME", "deployer" >>,
    << "NEXUS_PASSWORD", "deployer-pw" >>,
    << "NEXUS_TIMEOUT", "60000" >>,
    << "NEXUS_TIMEOUT", "soon" >>,
    << "NEXUS_VALIDATE_SSL", "false" >>,
    << "READ_ONLY_MODE", "true" >>,
    << "ENABLED_TOOLS", "" >>,
    << "ENABLED_TOOLS", "nexus_list_tasks, nexus_get_component" >>,
    << "FIREWALL_USERNAME", "fw-admin" >>,
    << "FIREWALL_PASSWORD", "fw-secret" >> }
Envs ==
  { NoEnv }
    \cup { [NoEnv EXCEPT ![a[1]] = Some(a[2])] : a \in EnvSettings }
    \cup { [NoEnv EXCEPT ![a[1]] = Some(a[2]), ![b[1]] = Some(b[2])] :
             a \in EnvSettings, b \in EnvSettings }

\* The tools called on these servers.
StartupTools ==
  { "nexus_get_component", "nexus_list_tasks",
    "firewall_get_quarantined_components", UnknownTool }

InitStartup == InitServer(Argvs, Envs)

NextStartup ==
  \E c \in SeqCallers :
    \/ \E name \in StartupTools :
         CallTool(c, name, DefaultArgs)
    \/ Respond(c, 200, NoBody) /\ UNCHANGED <<boot, tool>>
    \/ ToolReturn(c)
    \/ ToolDeliver(c)

SpecStartup == InitStartup /\ [][NextStartup]_vars

(* ---- NexusMCPServer.start ---- *)

\* Longest command line the start-up runs are given.
MaxArgs == 4

\* Tokens of those command lines: the help flags, a boolean flag, a key,
\* two values and the empty string.
StartTokens ==
  { "--help", "-h", "--read-only", "--nexus-username", "admin", "root", "" }
StartArgvs == UNION { [1..n -> StartTokens] : n \in 0..MaxArgs }

\* An environment envSchema accepts and one it rejects.
StartEnvs == { NoEnv, [NoEnv EXCEPT !.NEXUS_TIMEOUT = Some("soon")] }

\* Array.prototype.includes on process.argv.
argvIncludes(argv, token) == \E i \in 1..Len(argv) : argv[i] = token

\* The test start() opens with.
helpRequested(argv) == argvIncludes(argv, "--help") \/ argvIncludes(argv, "-h")

\* The process as module index.ts has been loaded: `config`, `nexusClient`
\* and `tools` of the server object are null / empty, start() has not run.
\* boot.events lists what start() has done so far, in order.
InitStart ==
  /\ \E argv \in StartArgvs, env \in StartEnvs :
       boot = [argv |-> argv, env |-> env, tools |-> << >>,
               pc |-> "start", events |-> << >>]
  /\ config = None
  /\ call = [c \in AllCallers |-> Idle]
  /\ started = 0
  /\ tool = [c \in AllCallers |-> ToolIdle]

\* start() with --help or -h on the command line: the usage text, then
\* process.exit(0).
StartHelp ==
  /\ boot.pc = "start"
  /\ helpRequested(boot.argv)
  /\ boot' = [boot EXCEPT !.pc = "exited", !.events = << "usage", "exit" >>]
  /\ UNCHANGED <<config, call, started, tool>>

\* start() when createConfig throws inside initializeWithConfig: the error
\* is thrown on by both catch blocks and ends the process.
StartFails ==
  /\ boot.pc = "start"
  /\ ~helpRequested(boot.argv)
  /\ loadEnvironment(boot.argv, boot.env) = None
  /\ boot' = [boot EXCEPT !.pc = "failed", !.events = << "throw" >>]
  /\ UNCHANGED <<config, call, started, tool>>

\* start() through initializeWithConfig: createConfig, new NexusClient,
\* createTools, setupHandlers.
StartInitializes ==
  /\ boot.pc = "start"
  /\ ~helpRequested(boot.argv)
  /\ loadEnvironment(boot.argv, boot.env) # None
  /\ config' = createConfig(boot.argv, boot.env)
  /\ boot' = [boot EXCEPT !.pc = "initialized",
                          !.tools = createTools(config'),
                          !.events = << "config", "client", "tools", "handlers" >>]
  /\ UNCHANGED <<call, started, tool>>

\* start() goes on, with no await in between, to nexusClient.testConnection()
\* and awaits it.
StartProbes(c) ==
  /\ boot.pc = "initialized"
  /\ Invoke(c, "nexus", "testConnection", probePath("nexus"),
            [headers |-> NoHeaders])
  /\ boot' = [boot EXCEPT !.pc = "probing", !.events = Append(@, "probe")]
  /\ UNCHANGED tool

\* The same when the HTTP library rejects the probe before sending it.
StartProbeSetupFails(c, msg) ==
  /\ boot.pc = "initialized"
  /\ InvokeSetupFails(c, "nexus", "testConnection", probePath("nexus"),
                      [headers |-> NoHeaders], msg)
  /\ boot' = [boot EXCEPT !.pc = "probing", !.events = Append(@, "probe")]
  /\ UNCHANGED tool

\* StartResumes that gives up when the probe returned false.
StartResumesNeedsProbe(c) ==
  /\ boot.pc = "probing"
  /\ Collect(c)
  /\ boot' = IF call[c].returned = Some(TRUE)
               THEN [boot EXCEPT !.pc = "connecting",
                                 !.events = @ \o << "probe:true", "connect" >>]
             ELSE [boot EXCEPT !.pc = "failed",
                               !.events = @ \o << "probe:false", "throw" >>]
  /\ UNCHANGED tool

\* testConnection has returned: start() logs the outcome and calls
\* server.connect(transport), which it awaits.
StartResumes(c) ==
  /\ boot.pc = "probing"
  /\ Collect(c)
  /\ boot' = [boot EXCEPT
       !.pc = "connecting",
       !.events = @ \o << IF call[c].returned = Some(TRUE) THEN "probe:true"
                           ELSE "probe:false",
                          "connect" >>]
  /\ UNCHANGED tool

\* The transport is connected; start() returns.
StartConnected ==
  /\ boot.pc = "connecting"
  /\ boot' = [boot EXCEPT !.pc = "connected", !.events = Append(@, "connected")]
  /\ UNCHANGED <<config, call, started, tool>>

\* Answers of the upstream to the probe.
StartStatuses == { 200, 401, 503 }

NextStart ==
  \/ StartHelp
  \/ StartFails
  \/ StartInitializes
  \/ \E c \in SeqCallers :
       \/ StartProbes(c)
       \/ StartProbeSetupFails(c, "Invalid URL")
       \/ \E status \in StartStatuses :
            Respond(c, status, NoBody) /\ UNCHANGED <<boot, tool>>
       \/ TransportFails(c, "connect ECONNREFUSED") /\ UNCHANGED <<boot, tool>>
       \/ StartResumes(c)
  \/ StartConnected

SpecStart == InitStart /\ [][NextStart]_vars

(* --------------------------- concurrent callers ------------------------ *)

\* isReadOnly() and getBaseUrl() of NexusClient.
isReadOnly == config.server.readOnly
getBaseUrl == config.nexus.baseUrl

\* Inputs of the calls that run interleaved.
ConcurrentEndpoints == { "/service/rest/v1/status/check", "/repositories/foo" }
ConcurrentStatuses == { 200, 401 }

\* Profiles the interleaved calls run against.
ConcurrentConfigs ==
  { cfg \in Configs :
      /\ (cfg.nexus.username = "") = (cfg.nexus.password = "")
      /\ cfg.firewall # None =>
            cfg.firewall[1].username # "" /\ cfg.firewall[1].password # "" }

InitConcurrent ==
  /\ config \in ConcurrentConfigs
  /\ call = [c \in AllCallers |-> Idle]
  /\ started = 0
  /\ boot = NoBoot
  /\ tool = [c \in AllCallers |-> ToolIdle]

\* Any caller may start a call while another caller's call is awaiting its
\* response: the awaits of different calls interleave freely.
NextConcurrent ==
  \E c \in AllCallers :
    \/ \E client \in Clients, method \in Methods,
          endpoint \in ConcurrentEndpoints :
         Invoke(c, client, method, endpoint, [headers |-> NoHeaders])
           /\ UNCHANGED <<boot, tool>>
    \/ \E status \in ConcurrentStatuses :
         Respond(c, status, NoBody) /\ UNCHANGED <<boot, tool>>
    \/ TransportFails(c, "connect ECONNREFUSED") /\ UNCHANGED <<boot, tool>>
    \/ Collect(c) /\ UNCHANGED <<boot, tool>>

SpecConcurrent == InitConcurrent /\ [][NextConcurrent]_vars

(* ---------------------------- a repeated read -------------------------- *)

\* The upstream is unchanged between two calls: a request equal to one it
\* has answered gets the same answer.
SameAnswer(c, d, status, data) ==
  (call[d].phase = "done" /\ call[d].wire = call[c].wire)
    => /\ call[d].response # None
       /\ call[d].response[1] = [status |-> status, data |-> data]

SameFailure(c, d, msg) ==
  (call[d].phase = "done" /\ call[d].wire = call[c].wire)
    => /\ call[d].response = None
       /\ call[d].caught = Some(Caught(PlainError(msg), None, TRUE))

\* The first caller reads; after its call ended the second caller makes the
\* same read.
NextRepeat ==
  \/ \E client \in Clients, endpoint \in Endpoints, options \in HeaderOptions :
       Invoke("c1", client, "get", endpoint, options) /\ UNCHANGED <<boot, tool>>
  \/ \E status \in Statuses, data \in Bodies :
       Respond("c1", status, data) /\ UNCHANGED <<boot, tool>>
  \/ \E msg \in TransportErrors :
       TransportFails("c1", msg) /\ UNCHANGED <<boot, tool>>
  \/ /\ call["c1"].phase = "done"
     /\ Invoke("c2", call["c1"].client, "get", call["c1"].endpoint,
               call["c1"].options)
     /\ UNCHANGED <<boot, tool>>
  \/ \E status \in Statuses, data \in Bodies :
       /\ SameAnswer("c2", "c1", status, data)
       /\ Respond("c2", status, data)
       /\ UNCHANGED <<boot, tool>>
  \/ \E msg \in TransportErrors :
       /\ SameFailure("c2", "c1", msg)
       /\ TransportFails("c2", msg)
       /\ UNCHANGED <<boot, tool>>

SpecRepeat == Init /\ [][NextRepeat]_vars

(* --------------------------- calls that complete ----------------------- *)

\* The transport settles the request of caller c: a response, a transport
\* failure or the timeout set on the axios instance (timeout:
\* config.nexus.timeout).
Settles(c) ==
  \/ \E status \in ConcurrentStatuses :
       Respond(c, status, NoBody) /\ UNCHANGED <<boot, tool>>
  \/ \E msg \in TransportErrors :
       TransportFails(c, msg) /\ UNCHANGED <<boot, tool>>

\* Callers invoke the methods of both clients, interleaved.
NextLive ==
  \E c \in AllCallers :
    \/ \E client \in Clients, method \in Methods,
          endpoint \in ConcurrentEndpoints :
         Invoke(c, client, method, endpoint, [headers |-> NoHeaders])
           /\ UNCHANGED <<boot, tool>>
    \/ \E client \in Clients, method \in Methods,
          endpoint \in ConcurrentEndpoints :
         InvokeSetupFails(c, client, method, endpoint, [headers |-> NoHeaders],
                          "Invalid URL")
           /\ UNCHANGED <<boot, tool>>
    \/ Settles(c)
    \/ Collect(c) /\ UNCHANGED <<boot, tool>>

\* Every request handed to the HTTP library is settled in the end: the
\* upstream answers, the connection fails, or the timeout fires.
SpecLive ==
  /\ InitConcurrent
  /\ [][NextLive]_vars
  /\ \A c \in AllCallers : WF_vars(Settles(c))

(* -------------------------------- claims -------------------------------- *)

GatewayMethods == {"get", "post", "put", "delete"}
WriteMethods == {"post", "put", "delete"}

\* The profile a client authenticates with lacks a username or a password.
EmptyProfile(client) ==
  IF client = "nexus"
    THEN config.nexus.username = "" \/ config.nexus.password = ""
  ELSE config.firewall = None
       \/ config.firewall[1].username = "" \/ config.firewall[1].password = ""

Finished(c) == call[c].phase = "done"
Raised(c) == call[c].raised[1]
Response(c) == call[c].response[1]

\* C1: with the read-only flag set, every post, put or delete of either
\* client has sent no HTTP request and has raised an AuthenticationError
\* whose message contains "read-only mode", whatever calls came before.
C1_ReadOnlyBlocksWrites ==
  \A c \in AllCallers :
    (config.server.readOnly /\ call[c].method \in WriteMethods)
      => /\ Finished(c)
         /\ call[c].wire = <<>>
         /\ call[c].returned = None
         /\ call[c].raised # None
         /\ Raised(c).name = "AuthenticationError"
         /\ formatMCPError(Raised(c)).code = "AUTHENTICATION_ERROR"
         /\ includes(Raised(c).message, "read-only mode")

\* A read-only delete("/repositories/foo") on a profile with credentials,
\* made after an earlier call, has ended.
C1_Witness ==
  \E c \in AllCallers :
    /\ config.server.readOnly /\ ~EmptyProfile("nexus")
    /\ started = MaxCalls
    /\ Finished(c) /\ call[c].client = "nexus" /\ call[c].method = "delete"
    /\ call[c].endpoint = "/repositories/foo"

C3_Original ==
  \A c \in AllCallers :
    (Finished(c) /\ EmptyProfile(call[c].client)
       /\ call[c].method \in GatewayMethods)
      => /\ call[c].raised # None
         /\ Raised(c).name \in {"ConfigurationError", "AuthenticationError"}
         /\ formatMCPError(Raised(c)).code
              \in {"CONFIGURATION_ERROR", "AUTHENTICATION_ERROR"}

\* C4: a 401 response raises an AuthenticationError whose message begins
\* with "Authentication failed"; a 403 response raises an
\* AuthenticationError with message "Access denied: " and the upstream
\* message; the same for get, post, put and delete.
C4_AuthStatuses ==
  \A c \in AllCallers :
    (Finished(c) /\ call[c].method \in GatewayMethods
       /\ call[c].response # None)
      => /\ Response(c).status = 401
            => /\ call[c].raised # None
               /\ Raised(c).name = "AuthenticationError"
               /\ startsWith(Raised(c).message, "Authentication failed")
         /\ Response(c).status = 403
            => /\ call[c].raised # None
               /\ Raised(c).name = "AuthenticationError"
               /\ Raised(c).message
                    = "Access denied: " \o upstreamMessage(Response(c).data)
               /\ Response(c).data = Obj(Some("no privilege"), None)
                    => Raised(c).message = "Access denied: no privilege"

\* A put answered 403 with body {message: "no privilege"}.
C4_Witness ==
  \E c \in AllCallers :
    /\ Finished(c) /\ call[c].method = "put" /\ call[c].response # None
    /\ Response(c) = [status |-> 403, data |-> Obj(Some("no privilege"), None)]

\* C5: a 404 response raises a NexusError (not-found) with status code 404
\* that carries the response body unchanged.
C5_NotFound ==
  \A c \in AllCallers :
    (Finished(c) /\ call[c].method \in GatewayMethods
       /\ call[c].response # None /\ Response(c).status = 404)
      => /\ call[c].raised # None
         /\ Raised(c).name = "NexusError"
         /\ startsWith(Raised(c).message, "Resource not found")
         /\ Raised(c).statusCode = Some(404)
         /\ formatMCPError(Raised(c)).code = "NEXUS_ERROR_404"
         /\ Raised(c).nexusResponse = Response(c).data

\* A get answered 404 with a body that has an error field.
C5_Witness ==
  \E c \in AllCallers :
    /\ Finished(c) /\ call[c].method = "get" /\ call[c].response # None
    /\ Response(c) = [status |-> 404, data |-> Obj(None, Some("Forbidden"))]
    /\ call[c].raised # None

\* The kind the classification policy gives a status >= 400.
PolicyKind(status) ==
  IF status \in {401, 403} THEN "authentication"
  ELSE IF status = 404 THEN "not-found"
  ELSE IF status \in 400..499 THEN "validation"
  ELSE "server"

\* The kind a raised failure shows to its caller.
ShownKind(failure) ==
  IF failure.name = "AuthenticationError" THEN "authentication"
  ELSE IF failure.name = "ValidationError" THEN "validation"
  ELSE IF failure.name = "NexusError" /\ failure.statusCode = Some(404)
    THEN "not-found"
  ELSE IF failure.name = "NexusError" /\ failure.statusCode # None
          /\ failure.statusCode[1] >= 500
    THEN "server"
  ELSE "other"

\* C6: every status >= 400 gets the one kind the policy gives it: 4xx other
\* than 401, 403, 404 a ValidationError "Client error: ...", every other
\* status a NexusError that keeps the upstream status code and body.
C6_Classification ==
  \A c \in AllCallers :
    (Finished(c) /\ call[c].method \in GatewayMethods
       /\ call[c].response # None /\ Response(c).status >= 400)
      => /\ call[c].raised # None
         /\ ShownKind(Raised(c)) = PolicyKind(Response(c).status)
         /\ PolicyKind(Response(c).status) = "validation"
              => /\ Raised(c).name = "ValidationError"
                 /\ startsWith(Raised(c).message, "Client error")
         /\ PolicyKind(Response(c).status) = "server"
              => /\ Raised(c).name = "NexusError"
                 /\ startsWith(Raised(c).message, "Nexus API error")
                 /\ Raised(c).statusCode = Some(Response(c).status)
                 /\ Raised(c).nexusResponse = Response(c).data

\* A delete answered 500 with a body.
C6_Witness ==
  \E c \in AllCallers :
    /\ Finished(c) /\ call[c].method = "delete" /\ call[c].response # None
    /\ Response(c) = [status |-> 500, data |-> Obj(Some("no privilege"), None)]
    /\ call[c].raised # None

\* C7: when a request was sent and no response came back, get, post, put
\* and delete raise the network failure: a NexusError with status code 0.
C7_NetworkFailure ==
  \A c \in AllCallers :
    (Finished(c) /\ call[c].method \in GatewayMethods
       /\ call[c].wire # <<>> /\ call[c].response = None)
      => /\ call[c].returned = None
         /\ call[c].raised # None
         /\ Raised(c).name = "NexusError"
         /\ Raised(c).statusCode = Some(0)
         /\ formatMCPError(Raised(c)).code = "NEXUS_ERROR_0"
         /\ Raised(c).message = "Network error: Unable to connect to Nexus server"

\* A post whose request timed out.
C7_Witness ==
  \E c \in AllCallers :
    /\ Finished(c) /\ call[c].method = "post" /\ call[c].wire # <<>>
    /\ call[c].caught
         = Some(Caught(PlainError("timeout of 30000ms exceeded"), None, TRUE))

\* Two failures a caller can tell apart by type or by formatMCPError code.
Distinguishable(f, g) ==
  f.name # g.name \/ formatMCPError(f).code # formatMCPError(g).code

\* C8 as stated: an error caught with neither response nor request is
\* raised as a failure that carries the original message and that the
\* caller can tell, by type or by formatMCPError code, from the network
\* failure and from every server failure.
C8_Original ==
  \A c \in AllCallers :
    (Finished(c) /\ call[c].method \in GatewayMethods
       /\ call[c].caught # None
       /\ call[c].caught[1].response = None /\ ~call[c].caught[1].request)
      => /\ call[c].raised # None
         /\ Raised(c).message
              = "Request setup error: " \o call[c].caught[1].err.message
         /\ Distinguishable(Raised(c), networkFailure)
         /\ \A status \in {s \in Statuses : s >= 500}, data \in Bodies :
              Distinguishable(Raised(c), classifyResponse(status, data))

\* C9: a get, post, put or delete that got a response returns the response
\* body exactly when the status is below 400 and raises a classified
\* failure exactly when it is 400 or above.
C9_ReturnOrRaise ==
  \A c \in AllCallers :
    (Finished(c) /\ call[c].method \in GatewayMethods
       /\ call[c].response # None)
      => /\ call[c].wire # <<>>
         /\ Response(c).status < 400
              => call[c].returned = Some(Response(c).data) /\ call[c].raised = None
         /\ Response(c).status >= 400
              => /\ call[c].returned = None /\ call[c].raised # None
                 /\ Raised(c).name
                      \in {"AuthenticationError", "ValidationError", "NexusError"}

\* A get answered 399 returned the body, and the boundary 400 exists too.
C9_Witness ==
  \E c \in AllCallers :
    /\ Finished(c) /\ call[c].method = "get" /\ call[c].response # None
    /\ Response(c).status = 399
    /\ call[c].returned = Some(Obj(None, None))

\* C10: NexusClient.testConnection never raises, with or without
\* credentials; it probes the status-check path and returns true exactly
\* when a response with status 200 arrived, and false on every other status
\* and on every failure.
C10_ProbeNeverRaises ==
  \A c \in AllCallers :
    (call[c].client = "nexus" /\ call[c].method = "testConnection")
      => /\ call[c].raised = None
         /\ call[c].wire # <<>> =>
              /\ call[c].wire[1].method = "GET"
              /\ call[c].wire[1].url = "/service/rest/v1/status/check"
         /\ Finished(c) =>
              /\ call[c].returned # None
              /\ call[c].returned[1]
                   = (call[c].response # None /\ Response(c).status = 200)

\* A probe without credentials whose connection was refused returned false.
C10_Witness ==
  \E c \in AllCallers :
    /\ EmptyProfile("nexus")
    /\ Finished(c) /\ call[c].client = "nexus"
    /\ call[c].method = "testConnection"
    /\ call[c].caught = Some(Caught(PlainError("connect ECONNREFUSED"), None, TRUE))
    /\ call[c].returned = Some(FALSE)

\* The text handleNexusError puts before the upstream message.
FailurePrefix(status) ==
  IF status = 401 THEN "Authentication failed: "
  ELSE IF status = 403 THEN "Access denied: "
  ELSE IF status = 404 THEN "Resource not found: "
  ELSE IF status < 500 THEN "Client error: "
  ELSE "Nexus API error: "

\* A call of get, post, put or delete that ended on an error response.
FailedOnResponse(c) ==
  /\ Finished(c) /\ call[c].method \in GatewayMethods
  /\ call[c].response # None /\ Response(c).status >= 400

\* C11 as stated: the failure of an error response carries the body's
\* message field when that field is present, otherwise its error field when
\* present, otherwise "Unknown API error".
C11_Original ==
  \A c \in AllCallers :
    FailedOnResponse(c) =>
      LET data == Response(c).data
          text == IF data.message # None THEN data.message[1]
                  ELSE IF data.error # None THEN data.error[1]
                  ELSE "Unknown API error"
      IN call[c].raised # None
         /\ Raised(c).message = FailurePrefix(Response(c).status) \o text

\* C11 amended: the failure of an error response carries the body's message
\* field when that field is present and not empty, otherwise its error field
\* when present and not empty, otherwise "Unknown API error" (also when the
\* response has no body).
C11_UpstreamMessage ==
  \A c \in AllCallers :
    FailedOnResponse(c) =>
      LET data == Response(c).data
          text == IF data.message # None /\ data.message[1] # ""
                    THEN data.message[1]
                  ELSE IF data.error # None /\ data.error[1] # ""
                    THEN data.error[1]
                  ELSE "Unknown API error"
      IN call[c].raised # None
         /\ Raised(c).message = FailurePrefix(Response(c).status) \o text

\* A 403 whose body has an empty message and an error field ended with the
\* error field's text.
C11_Witness ==
  \E c \in AllCallers :
    /\ FailedOnResponse(c) /\ Response(c).status = 403
    /\ Response(c).data = Obj(Some(""), Some("Forbidden"))
    /\ Raised(c).message = "Access denied: Forbidden"

\* C12: every call of get, post, put or delete, and every probe, hands at
\* most one request to the HTTP library; a call that ended in a failure has
\* sent no second request.
C12_NoRetry ==
  \A c \in AllCallers :
    /\ Len(call[c].wire) <= 1
    /\ (Finished(c) /\ call[c].raised # None) => Len(call[c].wire) <= 1

\* A get whose connection was refused ended in a network failure after its
\* one request.
C12_Witness ==
  \E c \in AllCallers :
    /\ Finished(c) /\ call[c].method = "get"
    /\ Len(call[c].wire) = 1 /\ call[c].response = None
    /\ call[c].raised = Some(networkFailure)

\* The Authorization header of the client's own profile.
ProfileAuthorization(client) ==
  IF client = "nexus"
    THEN generateBasicAuthHeader(config.nexus.username, config.nexus.password)
  ELSE generateBasicAuthHeader(config.firewall[1].username,
                               config.firewall[1].password)

\* C17 as stated, for profiles that have credentials: every request sent by
\* get, post, put or delete carries the Basic Authorization header of the
\* client's own profile, whatever headers the caller passed.
C17_Original ==
  \A c \in AllCallers :
    (call[c].method \in GatewayMethods /\ call[c].wire # <<>>
       /\ ~EmptyProfile(call[c].client))
      => call[c].wire[1].headers.Authorization
           = Some(ProfileAuthorization(call[c].client))

\* C16: no call of either client changes the connection profile, under any
\* interleaving of concurrent calls: isReadOnly() and getBaseUrl() keep the
\* values the client was constructed with.
C16_ProfileImmutable ==
  [][config' = config /\ isReadOnly' = isReadOnly
       /\ getBaseUrl' = getBaseUrl]_vars

\* Two calls are interleaved: a post is awaiting its response while another
\* caller's get on the same client has already failed.
C16_Witness ==
  /\ call["c1"].phase = "pending" /\ call["c1"].method = "post"
  /\ call["c1"].client = "nexus"
  /\ call["c2"].phase = "done" /\ call["c2"].method = "get"
  /\ call["c2"].client = "nexus" /\ call["c2"].raised # None
  /\ ~isReadOnly /\ getBaseUrl = "http://localhost:8081"

\* C20: two gets with the same endpoint and options against an unchanged
\* upstream send equal requests and end with equal results (both return
\* the same data or both raise the same failure).
C20_ReadIdempotent ==
  (call["c1"].phase = "done" /\ call["c2"].phase = "done")
    => /\ call["c2"].wire = call["c1"].wire
       /\ call["c2"].returned = call["c1"].returned
       /\ call["c2"].raised = call["c1"].raised

\* A get answered 401 was repeated and ended with the same failure.
C20_Witness ==
  /\ call["c1"].phase = "done" /\ call["c2"].phase = "done"
  /\ call["c1"].client = "nexus" /\ call["c1"].endpoint = "/repositories/foo"
  /\ call["c1"].response # None /\ Response("c1").status = 401
  /\ call["c2"].response # None
  /\ call["c2"].raised
       = Some(AuthenticationError("Authentication failed: Unknown API error"))

\* The tool of a call is registered on this server.
Registered(c) == getToolByName(boot.tools, tool[c].name)

\* The tool writes: its first gateway call is a post, put or delete.
WritingTool(name) ==
  serviceCall(name, ToolIdle.args, 1, NoBody).method \in WriteMethods

\* The tool's first gateway call is one NexusClient refuses without
\* credentials.
NeedsNexusCredentials(name) ==
  LET first == serviceCall(name, ToolIdle.args, 1, NoBody) IN
  /\ first.client = "nexus"
  /\ first.method = "get" => credentialsNeeded(first.endpoint)

\* C13: a call of a registered tool never ends with an error escaping the
\* call-tool handler; it ends with a result, and when the handler met a
\* failure (the bag failed validation, the read-only or the credential gate
\* refused, the gateway raised a classified failure) the result has isError
\* true and a text that carries the failure's message.
C13_FailuresAreValues ==
  \A c \in AllCallers :
    (tool[c].phase = "done" /\ Registered(c)) =>
      LET t == tool[c] IN
      /\ t.escaped = None /\ t.result # None
      /\ t.result[1].isError = (t.caught # None)
      /\ t.caught # None =>
           /\ Len(t.result[1].text) > 0
           /\ includes(t.result[1].text, t.caught[1].message)
      /\ (t.name \notin UnvalidatedTools /\ validateInput(t.name, t.args) # None)
           => /\ t.caught # None /\ t.caught[1].name = "ValidationError"
              /\ includes(t.result[1].text, "Validation failed")
      /\ (config.server.readOnly /\ WritingTool(t.name)
            /\ validateInput(t.name, t.args) = None
            /\ localFailure(t.name, t.args) = None)
           => /\ t.result[1].isError
              /\ includes(t.result[1].text, "read-only mode")
      /\ (EmptyProfile("nexus") /\ NeedsNexusCredentials(t.name)
            /\ ~(config.server.readOnly /\ WritingTool(t.name))
            /\ validateInput(t.name, t.args) = None
            /\ localFailure(t.name, t.args) = None)
           => /\ t.result[1].isError /\ t.requests = << >>
              /\ includes(t.result[1].text, "credentials not configured")

\* nexus_get_repository on a server with credentials was answered 401 and
\* returned an error result.
C13_Witness ==
  \E c \in AllCallers :
    /\ tool[c].phase = "done" /\ tool[c].name = "nexus_get_repository"
    /\ tool[c].args.value = "team/releases"
    /\ tool[c].requests # << >>
    /\ tool[c].requests[1].url = "/service/rest/v1/repositories/team%2Freleases"
    /\ tool[c].result = Some(
         [isError |-> TRUE,
          text |-> "Error getting repository: Authentication failed: no privilege"])

\* The bag violates the tool's schema: the zod schema of the handler rejects
\* it or, for a handler that has none, the bag does not conform to the
\* declared input schema.
SchemaRejects(name, args) ==
  IF name \in UnvalidatedTools THEN args.shape # "conforming"
  ELSE validateInput(name, args) # None

\* C18 as stated: a call of a registered tool with a bag that violates the
\* tool's schema dispatches no HTTP request and ends with a "Validation
\* failed" error result.
C18_Original ==
  \A c \in AllCallers :
    (tool[c].phase # "idle" /\ Registered(c)
       /\ SchemaRejects(tool[c].name, tool[c].args))
      => /\ tool[c].requests = << >>
         /\ call[c].wire = << >>
         /\ tool[c].phase = "done"
         /\ tool[c].result # None /\ tool[c].result[1].isError
         /\ includes(tool[c].result[1].text, "Validation failed")

\* The entries of a comma-separated allow-list.
Entries(list) ==
  IF list = "" THEN << >>
  ELSE LET parts == split(list, ",") IN [i \in 1..Len(parts) |-> trim(parts[i])]

\* The allow-list the server was started with: the --enabled-tools flag
\* when it has a value, else the ENABLED_TOOLS variable.
AllowList ==
  LET flag == parseArgs(boot.argv)["enabled-tools"] IN
  IF flag # None THEN Entries(flag[1])
  ELSE IF boot.env.ENABLED_TOOLS # None THEN Entries(boot.env.ENABLED_TOOLS[1])
  ELSE << >>

Range(seq) == { seq[i] : i \in 1..Len(seq) }

\* The tools createTools can register on this server.
Available ==
  Range(NexusTools) \cup (IF config.firewall # None THEN Range(FirewallTools)
                          ELSE {})

\* C14 as stated: with an empty allow-list every available tool is
\* registered; with a non-empty one a tool is registered iff its name
\* equals an entry, whether the list comes from ENABLED_TOOLS or from
\* --enabled-tools; a tool that is not registered is never executed.
C14_Original ==
  /\ Range(boot.tools) =
       IF AllowList = << >> THEN Available
       ELSE { name \in Available : name \in Range(AllowList) }
  /\ \A c \in AllCallers :
       (tool[c].phase # "idle" /\ ~Registered(c))
         => /\ tool[c].requests = << >> /\ tool[c].result = None
            /\ call[c].wire = << >>

\* The command line sets a key.
Given(key) == parseArgs(boot.argv)[key] # None
GivenValue(key) == parseArgs(boot.argv)[key][1]

\* C15 as stated: a setting given on the command line wins over the
\* environment, for base URL, user name, password, timeout, TLS
\* validation, read-only mode and the enabled tools.
C15_Original ==
  /\ Given("nexus-url") => config.nexus.baseUrl = GivenValue("nexus-url")
  /\ Given("nexus-username") => config.nexus.username = GivenValue("nexus-username")
  /\ Given("nexus-password") => config.nexus.password = GivenValue("nexus-password")
  /\ Given("nexus-timeout") => config.nexus.timeout = Str(GivenValue("nexus-timeout"))
  /\ Given("nexus-validate-ssl")
       => config.nexus.validateSsl = GivenValue("nexus-validate-ssl")
  /\ Given("read-only") => config.server.readOnly = GivenValue("read-only")
  /\ Given("enabled-tools")
       => config.features.enabledTools = Str(GivenValue("enabled-tools"))

\* A Firewall user name and a Firewall password are configured, on the
\* command line or in the environment.
FirewallConfigured ==
  LET args == parseArgs(boot.argv)
      user == IF args["firewall-username"] # None
                THEN args["firewall-username"][1]
              ELSE IF boot.env.FIREWALL_USERNAME # None
                THEN boot.env.FIREWALL_USERNAME[1] ELSE ""
      pass == IF args["firewall-password"] # None
                THEN args["firewall-password"][1]
              ELSE IF boot.env.FIREWALL_PASSWORD # None
                THEN boot.env.FIREWALL_PASSWORD[1] ELSE ""
  IN user # "" /\ pass # ""

\* The allow-list of the configuration admits a tool (isToolEnabled).
Admitted(name) == isToolEnabled(name, config.features.enabledTools)

C22_ReadOnlyGateFirst ==
  \A c \in AllCallers :
    (/\ call[c].method \in WriteMethods
     /\ config.server.readOnly
     /\ EmptyProfile(call[c].client))
      => /\ Finished(c)
         /\ call[c].raised # None
         /\ includes(Raised(c).message, "read-only mode")
         /\ ~includes(Raised(c).message, "credentials not configured")
         /\ Raised(c) # credentialsError(call[c].client)
         /\ call[c].wire = << >>
         /\ call[c].response = None

\* A Firewall put on a read-only profile whose Firewall password is empty
\* has ended.
C22_Witness ==
  \E c \in AllCallers :
    /\ config.server.readOnly
    /\ config.firewall # None /\ config.firewall[1].password = ""
    /\ Finished(c) /\ call[c].client = "firewall" /\ call[c].method = "put"
    /\ call[c].raised = Some(readOnlyError)

(* ---- C25 ---- *)

\* The scan the claim describes, position by position.  A token is taken
\* as a value when the token before it is a key that the scan looked at
\* (a "--" token that is none of the four flags) and the token itself may
\* follow a key; nonEmpty tells whether an empty token may.
MayFollowKey(token, nonEmpty) ==
  ~startsWith(token, "--") /\ (nonEmpty => token # "")
IsValueKey(token) ==
  startsWith(token, "--") /\ slice(token, 2) \notin BooleanFlags
RECURSIVE TakenAsValue(_, _, _)
TakenAsValue(argv, i, nonEmpty) ==
  /\ i > 1 /\ i <= Len(argv)
  /\ ~TakenAsValue(argv, i - 1, nonEmpty)
  /\ IsValueKey(argv[i - 1])
  /\ MayFollowKey(argv[i], nonEmpty)

\* The positions at which the scan finds --key, and the value the key has
\* after the scan: true for a flag found at any of them, the token after
\* the last of them that has a value for any other key, unset otherwise.
FoundAt(argv, key, nonEmpty) ==
  { i \in 1..Len(argv) :
      argv[i] = "--" \o key /\ ~TakenAsValue(argv, i, nonEmpty) }
ScanValue(argv, key, nonEmpty) ==
  LET found == FoundAt(argv, key, nonEmpty)
      valued == { i \in found : TakenAsValue(argv, i + 1, nonEmpty) }
  IN IF key \in BooleanFlags
       THEN IF found = {} THEN None ELSE Some(TRUE)
     ELSE IF valued = {} THEN None
     ELSE Some(argv[(CHOOSE i \in valued : \A k \in valued : k <= i) + 1])

\* start() has called createConfig, and with it parseArgs.
ArgsParsed == boot.pc \notin { "start", "exited" }

\* C25 as stated: a key takes the next token as its value whenever that
\* token exists and does not start with "--".
C25_Original ==
  ArgsParsed =>
    \A key \in ArgKeys : parseArgs(boot.argv)[key] = ScanValue(boot.argv, key, FALSE)

\* C25: parseArgs scans the command line left to right: each of the four
\* flags is set to true and does not take the token after it; any other
\* --key takes the token after it as its value, and skips it, exactly when
\* that token exists, is not empty and does not start with "--", and stays
\* unset otherwise; a token that is neither a "--" token nor taken as a
\* value is ignored; a key given more than once keeps its last value.
C25_ParseArgs ==
  ArgsParsed =>
    \A key \in ArgKeys : parseArgs(boot.argv)[key] = ScanValue(boot.argv, key, TRUE)

\* A server started with --nexus-username admin --nexus-username root is
\* connected and authenticates as root.
C25_Witness ==
  /\ boot.pc = "connected"
  /\ boot.argv = << "--nexus-username", "admin", "--nexus-username", "root" >>
  /\ config.nexus.username = "root"

(* ---- C28 ---- *)

\* The position of an event in what start() has done (0: not done).
EventAt(event) ==
  IF \E i \in 1..Len(boot.events) : boot.events[i] = event
    THEN CHOOSE i \in 1..Len(boot.events) : boot.events[i] = event
  ELSE 0
Before(a, b) == EventAt(b) > 0 => (EventAt(a) > 0 /\ EventAt(a) < EventAt(b))

\* C28: start() loads the configuration, creates the client and the tools
\* and registers the request handlers before it connects the transport;
\* the connection probe runs and ends before the transport is connected,
\* and once the probe has ended, with true or false, start() goes on to
\* connect the transport and does not fail; with --help the process exits
\* with no configuration loaded, no client, no tool and no request sent.
C28_StartupOrder ==
  /\ \A e \in { "config", "client", "tools", "handlers", "probe" } :
       Before(e, "connect")
  /\ Before("config", "client") /\ Before("connect", "connected")
  /\ EventAt("connect") > 0 =>
       EventAt("probe:true") + EventAt("probe:false") = EventAt("connect") - 1
  /\ boot.pc \in { "connecting", "connected" } <=> EventAt("connect") > 0
  /\ (EventAt("probe:true") > 0 \/ EventAt("probe:false") > 0)
       => boot.pc \in { "connecting", "connected" }
  /\ boot.pc = "connected" => config # None /\ boot.tools # << >>
  /\ argvIncludes(boot.argv, "--help") =>
       /\ boot.pc \in { "start", "exited" }
       /\ config = None /\ boot.tools = << >>
       /\ EventAt("config") = 0 /\ EventAt("connect") = 0
       /\ started = 0

\* A server whose probe was answered 503 is connected all the same.
C28_Witness ==
  /\ boot.pc = "connected"
  /\ boot.events = << "config", "client", "tools", "handlers", "probe",
                      "probe:false", "connect", "connected" >>
  /\ started = 1

\* A process started with --help has exited.
C28_WitnessHelp ==
  /\ boot.pc = "exited" /\ argvIncludes(boot.argv, "--help")
  /\ boot.events = << "usage", "exit" >>

(* ---- C30 ---- *)

\* The call of c has ended the way a gateway method may end: with data, or
\* with one classified failure and no data; a request that timed out ended
\* as the network failure with status code 0.
Completed(c) ==
  /\ Finished(c)
  /\ (call[c].returned # None) # (call[c].raised # None)
  /\ call[c].raised # None =>
       /\ Raised(c).name \in { "NexusError", "AuthenticationError",
                               "ValidationError" }
       /\ formatMCPError(Raised(c)).code # "UNKNOWN_ERROR"
  /\ (/\ call[c].method \in GatewayMethods
      /\ call[c].caught # None
      /\ includes(call[c].caught[1].err.message, "timeout"))
       => /\ call[c].raised = Some(networkFailure)
          /\ Raised(c).statusCode = Some(0)
          /\ startsWith(Raised(c).message, "Network error")
          /\ call[c].returned = None

\* C30: every call of get, post, put or delete (and of the probe) that
\* awaits the HTTP library eventually completes, provided the transport
\* settles every request with a response, a failure or a timeout: it ends
\* by returning data or by raising one classified failure, and a timeout
\* ends it with the network failure of status code 0.
C30_CallsComplete ==
  \A c \in AllCallers : (call[c].phase = "pending") ~> Completed(c)

\* A put of the second caller, sent while the first caller's call was
\* pending, has timed out and ended as the network failure.
C30_Witness ==
  /\ call["c1"].phase = "pending"
  /\ call["c2"].method = "put" /\ Finished("c2")
  /\ call["c2"].wire # << >> /\ call["c2"].caught # None
  /\ call["c2"].caught[1].err.message = "timeout of 30000ms exceeded"
  /\ call["c2"].raised = Some(networkFailure)

(* ---- C27 ---- *)

\* C27 as stated, for the handlers that validate their bag: a call of a
\* tool whose declared schema has additionalProperties false, with a bag
\* holding a key the schema does not declare, ends with a validation error
\* result and dispatches no HTTP request.
C27_Original ==
  \A c \in AllCallers :
    (/\ tool[c].phase # "idle" /\ Registered(c)
     /\ tool[c].name \in ClosedSchemaTools \ UnvalidatedTools
     /\ tool[c].args.shape = "unknownKey")
      => /\ tool[c].requests = << >>
         /\ call[c].wire = << >>
         /\ tool[c].phase = "done"
         /\ tool[c].result # None /\ tool[c].result[1].isError
         /\ includes(tool[c].result[1].text, "Validation failed")

(* ---- C21 ---- *)

\* The call made for nexus_get_usage_metrics has got its first answer.
MetricsAnswered(c) ==
  /\ tool[c].name = "nexus_get_usage_metrics"
  /\ tool[c].phase \in { "between", "done" }
  /\ tool[c].answers # << >>

\* C21 as stated: when /service/metrics/data answers 404,
\* getServiceMetricsData makes a second request, to
\* /service/rest/v1/metrics/data, returns its data when it succeeds and
\* raises the error of the first request when it fails too; after any other
\* failure of the first request it makes no second request.
C21_Original ==
  \A c \in AllCallers :
    MetricsAnswered(c) =>
      LET t == tool[c] IN
      /\ t.requests[1].url = "/service/metrics/data"
      /\ (t.answers[1].status = 404 /\ t.phase = "done") =>
           /\ Len(t.requests) = 2
           /\ t.requests[2].url = "/service/rest/v1/metrics/data"
           /\ (Len(t.answers) = 2 /\ ~isErrorStatus(t.answers[2].status))
                => t.result = Some(successResult(t.answers[2].data))
           /\ (Len(t.answers) = 2 /\ isErrorStatus(t.answers[2].status))
                => t.caught = Some(classifyResponse(404, t.answers[1].data))
      /\ (isErrorStatus(t.answers[1].status) /\ t.answers[1].status # 404)
           => Len(t.requests) = 1

(* ---- C29 ---- *)

GuidedTools ==
  { "nexus_get_usage_metrics", "firewall_get_quarantined_components",
    "firewall_release_from_quarantine" }

\* The tool call of c has ended after the upstream answered its request
\* with this status.
EndedOn(c, status) ==
  /\ tool[c].phase = "done" /\ tool[c].result # None
  /\ tool[c].answers # << >>
  /\ tool[c].answers[Len(tool[c].answers)].status = status

\* C29 as stated: when the upstream answers 403 to the call of
\* nexus_get_usage_metrics, firewall_get_quarantined_components or
\* firewall_release_from_quarantine, the error text carries the tool's
\* missing-privilege guidance, and when it answers 404 the text carries the
\* tool's not-found guidance, whatever the body of the answer.
C29_Original ==
  \A c \in AllCallers :
    tool[c].name \in GuidedTools =>
      /\ EndedOn(c, 403) =>
           /\ tool[c].result[1].isError
           /\ includes(tool[c].result[1].text, MissingPrivilege(tool[c].name))
      /\ EndedOn(c, 404) =>
           /\ tool[c].result[1].isError
           /\ includes(tool[c].result[1].text, NotFoundGuidance(tool[c].name))

(* ---- C26 ---- *)

\* C26 as stated: a valid call of nexus_search_components sends its limit
\* and offset (25 and 0 when the bag has none) with the search request, and
\* its result holds no more components than the limit.
C26_Original ==
  \A c \in AllCallers :
    (/\ tool[c].name = "nexus_search_components"
     /\ tool[c].phase # "idle"
     /\ validateInput(tool[c].name, tool[c].args) = None)
      => /\ \A i \in 1..Len(tool[c].requests) :
              /\ includes(tool[c].requests[i].url,
                          "limit=" \o ToString(searchLimit(tool[c].args)))
              /\ includes(tool[c].requests[i].url,
                          "offset=" \o ToString(searchOffset(tool[c].args)))
         /\ (tool[c].result # None /\ ~tool[c].result[1].isError)
              => /\ Len(tool[c].result[1].payload.components)
                      <= searchLimit(tool[c].args)
                 /\ tool[c].result[1].payload.count <= searchLimit(tool[c].args)

(* ---- C24 ---- *)

\* A call of nexus_create_repository whose bag the schema accepts.
Creating(c) ==
  /\ tool[c].name = "nexus_create_repository" /\ tool[c].phase # "idle"
  /\ Registered(c)
  /\ validateInput(tool[c].name, tool[c].args) = None

\* The call is one the claim says is rejected: a proxy with no
\* proxy.remoteUrl, a group with no or empty group.memberNames.
MustReject(args) ==
  \/ args.type = "proxy" /\ args.remoteUrl = None
  \/ args.type = "group"
       /\ (args.memberNames = None \/ args.memberNames = Some(<< >>))

\* The call ended in an error result without any request.
RejectedLocally(c) ==
  /\ tool[c].phase = "done"
  /\ tool[c].requests = << >> /\ tool[c].answers = << >>
  /\ call[c].wire = << >>
  /\ tool[c].result # None /\ tool[c].result[1].isError
  /\ \/ includes(tool[c].result[1].text, "Remote URL is required")
     \/ includes(tool[c].result[1].text, "Member names are required")

\* The requests of the call are one POST to the path of its format and type.
OnePost(c) ==
  /\ Len(tool[c].requests) = 1
  /\ tool[c].requests[1].method = "POST"
  /\ tool[c].requests[1].url =
       "/service/rest/v1/repositories/" \o tool[c].args.format
         \o "/" \o tool[c].args.type

\* C24 as stated: the calls to reject are rejected before any request, and
\* every other call that passes the handler's checks dispatches exactly one
\* POST to /service/rest/v1/repositories/<format>/<type>.
C24_Original ==
  \A c \in AllCallers :
    Creating(c) =>
      /\ MustReject(tool[c].args) => RejectedLocally(c)
      /\ localFailure(tool[c].name, tool[c].args) = None => OnePost(c)

\* C24: nexus_create_repository rejects, with no request dispatched, every
\* call of type proxy without proxy.remoteUrl and every call of type group
\* whose group.memberNames is missing or empty; a call that passes calls
\* post once: on a server that is not read-only and has Nexus credentials
\* it dispatches exactly one POST, to
\* /service/rest/v1/repositories/<format>/<type>, and on any other server
\* the gateway refuses and no request is dispatched.
C24_CreateRepository ==
  \A c \in AllCallers :
    Creating(c) =>
      /\ MustReject(tool[c].args) => RejectedLocally(c)
      /\ localFailure(tool[c].name, tool[c].args) = None =>
           IF config.server.readOnly \/ EmptyProfile("nexus")
             THEN /\ tool[c].requests = << >> /\ tool[c].phase = "done"
                  /\ tool[c].result[1].isError
                  /\ ~RejectedLocally(c)
           ELSE OnePost(c)

\* A group repository with one member was created: one POST to
\* /service/rest/v1/repositories/npm/group, answered 200.
C24_Witness ==
  \E c \in AllCallers :
    /\ Creating(c) /\ tool[c].phase = "done"
    /\ tool[c].args.type = "group" /\ tool[c].args.format = "npm"
    /\ tool[c].args.memberNames = Some(<< "maven-central" >>)
    /\ tool[c].requests # << >>
    /\ tool[c].requests[1].url = "/service/rest/v1/repositories/npm/group"
    /\ tool[c].result # None /\ ~tool[c].result[1].isError

(* ---- C23 ---- *)

\* A call of nexus_update_repository whose bag the schema accepts.
Updating(c) ==
  /\ tool[c].name = "nexus_update_repository" /\ tool[c].phase # "idle"
  /\ Registered(c)
  /\ validateInput(tool[c].name, tool[c].args) = None

\* The first request of the call is the GET of the named repository.
GetDispatched(c) ==
  /\ tool[c].requests # << >>
  /\ tool[c].requests[1].method = "GET"
  /\ tool[c].requests[1].url =
       "/service/rest/v1/repositories/" \o encodeURIComponent(tool[c].args.value)

\* The GET of the call was answered with a success status.
GetSucceeded(c) ==
  /\ GetDispatched(c)
  /\ tool[c].answers # << >>
  /\ ~isErrorStatus(tool[c].answers[1].status)

\* A property of the repository the GET returned, as text.
Returned(c, property) ==
  LET data == tool[c].answers[1].data IN
  IF property \in DOMAIN data /\ data[property] # None
    THEN data[property][1] ELSE "undefined"

PutsOf(c) ==
  { i \in 1..Len(tool[c].requests) : tool[c].requests[i].method = "PUT" }

\* The order of the requests: the GET first, a PUT only as the second
\* request, after the GET succeeded, to the path of the format and type the
\* GET returned; nothing after a failed GET.
GetBeforePut(c) ==
  /\ tool[c].requests # << >> => GetDispatched(c)
  /\ Len(tool[c].requests) <= 2
  /\ \A i \in PutsOf(c) :
       /\ i = 2 /\ GetSucceeded(c)
       /\ tool[c].requests[i].url =
            "/service/rest/v1/repositories/" \o Returned(c, "format")
              \o "/" \o Returned(c, "type")
              \o "/" \o encodeURIComponent(tool[c].args.value)
  /\ (tool[c].phase = "done" /\ ~GetSucceeded(c)) =>
       /\ PutsOf(c) = {}
       /\ tool[c].result # None /\ tool[c].result[1].isError

\* C23 as stated: the GET comes before any PUT, a PUT follows only a GET
\* that succeeded and goes to the path of the returned format and type, a
\* failed GET means no PUT, and in read-only mode the GET is still
\* dispatched and the call ends in an error result with no PUT.
C23_Original ==
  \A c \in AllCallers :
    Updating(c) =>
      /\ GetBeforePut(c)
      /\ config.server.readOnly =>
           /\ GetDispatched(c)
           /\ PutsOf(c) = {}
           /\ tool[c].phase = "done" => tool[c].result[1].isError

\* C23: nexus_update_repository dispatches the GET of the named repository
\* before any PUT; a PUT is dispatched only after that GET succeeded, to
\* /service/rest/v1/repositories/<format>/<type>/<name> with the format and
\* type the GET returned; after a failed GET there is no PUT; in read-only
\* mode no PUT is dispatched and the call ends in an error result, the GET
\* being dispatched first if and only if Nexus credentials are configured.
C23_UpdateOrder ==
  \A c \in AllCallers :
    Updating(c) =>
      /\ GetBeforePut(c)
      /\ config.server.readOnly =>
           /\ GetDispatched(c) <=> ~EmptyProfile("nexus")
           /\ PutsOf(c) = {}
           /\ tool[c].phase = "done" => tool[c].result[1].isError

\* An update went through: the GET returned an npm proxy repository and
\* the PUT went to /service/rest/v1/repositories/npm/proxy/<name>.
C23_Witness ==
  \E c \in AllCallers :
    /\ Updating(c) /\ tool[c].phase = "done"
    /\ GetSucceeded(c) /\ PutsOf(c) = {2}
    /\ tool[c].answers[1].data = RepositoryBody
    /\ tool[c].requests[2].url =
         "/service/rest/v1/repositories/npm/proxy/"
           \o encodeURIComponent(tool[c].args.value)
    /\ ~tool[c].result[1].isError

\* A read-only server with credentials: the GET succeeded, the PUT was
\* refused and the call ended in an error result.
C23_WitnessReadOnly ==
  \E c \in AllCallers :
    /\ Updating(c) /\ tool[c].phase = "done" /\ config.server.readOnly
    /\ GetSucceeded(c) /\ PutsOf(c) = {}
    /\ tool[c].result[1].isError

====
